---- MODULE Spec2Model ----
(***************************************************************************)
(* agdex: the marker-block injector/remover of src/lib/agents-md.ts and    *)
(* src/lib/skills.ts, modelled on host-file contents.                      *)
(*                                                                         *)
(* A host file content is a sequence of one-character strings, so that     *)
(* String.prototype.indexOf / slice / includes / endsWith / trimEnd and    *)
(* the two regular expressions of the source are computed position by      *)
(* position, with JavaScript's conventions (0-based indices, indexOf       *)
(* answering -1, slice clamping and counting negative indices from the     *)
(* end).                                                                   *)
(***************************************************************************)
EXTENDS Integers, Sequences, FiniteSets

(***************************************************************************)
(* Bounds of the model.                                                    *)
(***************************************************************************)
\* operations applied to one host file in a run
MaxOps == 2
\* iterations of the sweep-all loop of removeDocsIndex that are followed
MaxIter == 3

(***************************************************************************)
(* JavaScript string primitives.                                           *)
(***************************************************************************)
Max(a, b) == IF a >= b THEN a ELSE b

Min(a, b) == IF a <= b THEN a ELSE b

\* s.slice(a, b)
slice(s, a, b) ==
  LET n    == Len(s)
      from == IF a < 0 THEN Max(n + a, 0) ELSE Min(a, n)
      to   == IF b < 0 THEN Max(n + b, 0) ELSE Min(b, n)
  IN  IF to <= from THEN <<>> ELSE SubSeq(s, from + 1, to)

\* s.slice(a)
sliceFrom(s, a) == slice(s, a, Len(s))

\* needle occurs in hay at the 0-based position i
matchAt(hay, needle, i) ==
  /\ i >= 0
  /\ i + Len(needle) <= Len(hay)
  /\ \A k \in 1..Len(needle) : hay[i + k] = needle[k]

\* the least element of a non-empty set of integers
Least(S) == CHOOSE i \in S : \A j \in S : i <= j

\* hay.indexOf(needle, from), for a non-empty needle and from >= 0: the first
\* position at or after from where needle occurs, or -1
indexOfFrom(hay, needle, from) ==
  LET at == { i \in from..(Len(hay) - Len(needle)) :
                hay[i + 1] = needle[1] /\ matchAt(hay, needle, i) }
  IN  IF at = {} THEN -1 ELSE Least(at)

\* hay.indexOf(needle)
indexOf(hay, needle) == indexOfFrom(hay, needle, 0)

\* hay.includes(needle)
includes(hay, needle) == indexOf(hay, needle) # -1

\* s.endsWith('\n')
endsWithNewline(s) == Len(s) > 0 /\ s[Len(s)] = "\n"

\* the characters \s of a regular expression and trimEnd() strip
WhiteSpace == {" ", "\n", "\t", "\r"}

RECURSIVE trimEndAt(_, _)
trimEndAt(s, n) ==
  IF n = 0 THEN <<>>
  ELSE IF s[n] \in WhiteSpace THEN trimEndAt(s, n - 1)
  ELSE SubSeq(s, 1, n)

\* s.trimEnd()
trimEnd(s) == trimEndAt(s, Len(s))

RECURSIVE newlineRunEnd(_, _)
\* the end (exclusive, 0-based) of the run of newlines that holds position i
newlineRunEnd(s, i) ==
  IF i < Len(s) /\ s[i + 1] = "\n" THEN newlineRunEnd(s, i + 1) ELSE i

RECURSIVE collapseNewlines(_)
\* s.replace(/\n{3,}/g, '\n\n'): every maximal run of three or more newlines,
\* left to right, becomes two newlines
collapseNewlines(s) ==
  LET at == indexOf(s, <<"\n", "\n", "\n">>)
  IN  IF at = -1 THEN s
      ELSE slice(s, 0, at) \o <<"\n", "\n">>
             \o collapseNewlines(sliceFrom(s, newlineRunEnd(s, at)))

(***************************************************************************)
(* Markers: agents-md.ts 22-36, skills.ts 23-24.                           *)
(***************************************************************************)
START_MARKER_PREFIX ==
  <<"<","!","-","-"," ","A","G","E","N","T","S","-","M","D","-",
    "E","M","B","E","D","-","S","T","A","R","T">>

END_MARKER_PREFIX ==
  <<"<","!","-","-"," ","A","G","E","N","T","S","-","M","D","-",
    "E","M","B","E","D","-","E","N","D">>

MARKER_SUFFIX == <<" ","-","-",">">>

SKILLS_START_MARKER ==
  <<"<","!","-","-"," ","A","G","E","N","T","S","-","M","D","-",
    "S","K","I","L","L","S","-","S","T","A","R","T"," ","-","-",">">>

SKILLS_END_MARKER ==
  <<"<","!","-","-"," ","A","G","E","N","T","S","-","M","D","-",
    "S","K","I","L","L","S","-","E","N","D"," ","-","-",">">>

\* an absent providerName (undefined, or the empty string: both are falsy)
NoProvider == <<>>

getStartMarker(providerName) ==
  IF providerName # NoProvider
  THEN START_MARKER_PREFIX \o <<":">> \o providerName \o MARKER_SUFFIX
  ELSE START_MARKER_PREFIX \o MARKER_SUFFIX

getEndMarker(providerName) ==
  IF providerName # NoProvider
  THEN END_MARKER_PREFIX \o <<":">> \o providerName \o MARKER_SUFFIX
  ELSE END_MARKER_PREFIX \o MARKER_SUFFIX

(***************************************************************************)
(* agents-md.ts: hasExistingIndex, removeDocsIndex, injectIndex.           *)
(***************************************************************************)
hasExistingIndex(content, providerName) ==
  IF providerName # NoProvider
  THEN includes(content, getStartMarker(providerName))
  ELSE includes(content, START_MARKER_PREFIX)

\* the cleanup without the collapse of newline runs
cleanupWhitespace_noCollapse(result) ==
  LET trimmed == trimEnd(result)
  IN  IF Len(trimmed) > 0 THEN trimmed \o <<"\n">> ELSE trimmed

\* the cleanup without the trimEnd of the result
cleanupWhitespace_noTrim(result) ==
  LET collapsed == collapseNewlines(result)
  IN  IF Len(collapsed) > 0 THEN collapsed \o <<"\n">> ELSE collapsed

\* the three closing statements of removeDocsIndex and removeSkillsIndex
cleanupWhitespace(result) ==
  LET trimmed == trimEnd(collapseNewlines(result))
  IN  IF Len(trimmed) > 0 THEN trimmed \o <<"\n">> ELSE trimmed

\* removeProviderBlock looking for any start marker instead of the provider's
removeProviderBlock_anyStart(result, providerName) ==
  LET endMarker == getEndMarker(providerName)
      startIdx  == indexOf(result, START_MARKER_PREFIX)
      endIdx    == indexOf(result, endMarker) + Len(endMarker)
  IN  IF startIdx # -1 /\ endIdx > startIdx
      THEN slice(result, 0, startIdx) \o sliceFrom(result, endIdx)
      ELSE result

\* removeDocsIndex, the branch taken with a providerName, before the cleanup
removeProviderBlock(result, providerName) ==
  LET startMarker == getStartMarker(providerName)
      endMarker   == getEndMarker(providerName)
      startIdx    == indexOf(result, startMarker)
      endIdx      == indexOf(result, endMarker) + Len(endMarker)
  IN  IF startIdx # -1 /\ endIdx > startIdx
      THEN slice(result, 0, startIdx) \o sliceFrom(result, endIdx)
      ELSE result

\* removeDocsIndex without its early return
removeDocsIndex_noEarlyReturn(content, providerName) ==
  cleanupWhitespace(removeProviderBlock(content, providerName))

\* removeDocsIndex(content, providerName) on the paths that never enter the
\* sweep-all loop: no index present, or a providerName given
removeDocsIndex(content, providerName) ==
  IF ~hasExistingIndex(content, providerName) THEN content
  ELSE cleanupWhitespace(removeProviderBlock(content, providerName))

RECURSIVE captureEnd(_, _)
\* the end (exclusive, 0-based) of the longest run of [^-\s] that starts at i
captureEnd(s, i) ==
  IF i < Len(s) /\ s[i + 1] \notin (WhiteSpace \cup {"-"})
  THEN captureEnd(s, i + 1)
  ELSE i

RECURSIVE providerMatchFrom(_, _)
\* s.match(/:([^-\s]+)/), tried from the 0-based position i on: the captured
\* group, or NoProvider when nothing matches
providerMatchFrom(s, i) ==
  IF i + 1 >= Len(s) THEN NoProvider
  ELSE IF s[i + 1] = ":" /\ captureEnd(s, i + 1) > i + 1
       THEN slice(s, i + 1, captureEnd(s, i + 1))
       ELSE providerMatchFrom(s, i + 1)

providerMatch(s) == providerMatchFrom(s, 0)

\* one iteration of the sweep-all loop of removeDocsIndex; the loop condition
\* (a start-marker prefix is left) holds of result
sweepIteration(result) ==
  LET startIdx           == indexOf(result, START_MARKER_PREFIX)
      startMarkerEnd     == indexOfFrom(result, MARKER_SUFFIX, startIdx)
                              + Len(MARKER_SUFFIX)
      startMarkerContent == slice(result, startIdx, startMarkerEnd)
      provider           == providerMatch(startMarkerContent)
      endMarker          == getEndMarker(provider)
      endIdx             == indexOf(result, endMarker)
  IN  IF endIdx # -1
      THEN slice(result, 0, startIdx)
             \o sliceFrom(result, endIdx + Len(endMarker))
      ELSE slice(result, 0, startIdx) \o sliceFrom(result, startMarkerEnd)

wrapWithMarkers(content, providerName) ==
  getStartMarker(providerName) \o <<"\n">> \o content \o <<"\n">>
    \o getEndMarker(providerName)

\* injectIndex cutting at the start of the end marker instead of its end
injectIndex_keepsEndMarker(existingContent, indexContent, providerName) ==
  LET wrappedContent == wrapWithMarkers(indexContent, providerName)
      startIdx       == indexOf(existingContent, getStartMarker(providerName))
      endIdx         == indexOf(existingContent, getEndMarker(providerName))
      separator      == IF endsWithNewline(existingContent)
                        THEN <<"\n">> ELSE <<"\n","\n">>
  IN  IF hasExistingIndex(existingContent, providerName)
      THEN slice(existingContent, 0, startIdx) \o wrappedContent
             \o sliceFrom(existingContent, endIdx)
      ELSE existingContent \o separator \o wrappedContent \o <<"\n">>

injectIndex(existingContent, indexContent, providerName) ==
  LET wrappedContent == wrapWithMarkers(indexContent, providerName)
      startMarker    == getStartMarker(providerName)
      endMarker      == getEndMarker(providerName)
      startIdx       == indexOf(existingContent, startMarker)
      endIdx         == indexOf(existingContent, endMarker) + Len(endMarker)
      separator      == IF endsWithNewline(existingContent)
                        THEN <<"\n">> ELSE <<"\n","\n">>
  IN  IF hasExistingIndex(existingContent, providerName)
      THEN slice(existingContent, 0, startIdx) \o wrappedContent
             \o sliceFrom(existingContent, endIdx)
      ELSE existingContent \o separator \o wrappedContent \o <<"\n">>

(***************************************************************************)
(* skills.ts: hasExistingSkillsIndex, removeSkillsIndex, injectSkillsIndex.*)
(***************************************************************************)
hasExistingSkillsIndex(content) == includes(content, SKILLS_START_MARKER)

removeSkillsIndex(content) ==
  LET startIdx == indexOf(content, SKILLS_START_MARKER)
      endIdx   == indexOf(content, SKILLS_END_MARKER) + Len(SKILLS_END_MARKER)
  IN  IF ~hasExistingSkillsIndex(content) THEN content
      ELSE cleanupWhitespace(slice(content, 0, startIdx)
                               \o sliceFrom(content, endIdx))

injectSkillsIndex(existingContent, indexContent) ==
  LET wrappedContent == SKILLS_START_MARKER \o <<"\n">> \o indexContent
                          \o <<"\n">> \o SKILLS_END_MARKER
      startIdx       == indexOf(existingContent, SKILLS_START_MARKER)
      endIdx         == indexOf(existingContent, SKILLS_END_MARKER)
                          + Len(SKILLS_END_MARKER)
      separator      == IF endsWithNewline(existingContent)
                        THEN <<"\n">> ELSE <<"\n","\n">>
  IN  IF hasExistingSkillsIndex(existingContent)
      THEN slice(existingContent, 0, startIdx) \o wrappedContent
             \o sliceFrom(existingContent, endIdx)
      ELSE existingContent \o separator \o wrappedContent \o <<"\n">>

(***************************************************************************)
(* The identifiers, bodies and host files of the model.                    *)
(***************************************************************************)
\* provider 'nextjs' (providers/nextjs.ts), a local name 'next' that is a
\* prefix of it (cli runLocal), provider 'delta-rs' (providers/delta-rs.ts)
nextjs == <<"n","e","x","t","j","s">>

next == <<"n","e","x","t">>

deltars == <<"d","e","l","t","a","-","r","s">>

Providers == {nextjs, next, deltars}

\* the body the calls inject: none of the host files holds it
Bodies == {<<"X">>}

\* the bodies of the blocks a host file holds at the start
OldBodies == {<<"o">>, <<"o","\n","\n","\n","o">>}

SkillsBlock(body) ==
  SKILLS_START_MARKER \o <<"\n">> \o body \o <<"\n">> \o SKILLS_END_MARKER

\* host files without any marker text
FreeTexts ==
  { <<>>, <<"a">>, <<"\n">>, <<"a"," ","\n">>,
    <<"a","\n","\n","\n","b"," "," ">> }

\* the text before and the text after a block
Prefixes == { <<>>, <<"a","\n","\n">>, <<"a">> }

Suffixes == { <<>>, <<"\n","\n","\n","b">>, <<"b","\n">> }

Surroundings ==
  { <<<<>>, <<>>>>,
    <<<<"a","\n","\n">>, <<"\n","\n","\n","b">>>>,
    <<<<"a">>, <<"b","\n">>>> }

\* P + block + S with one docs block
OneBlockFiles ==
  { PS[1] \o wrapWithMarkers(<<"o">>, id) \o PS[2] :
      PS \in Surroundings, id \in Providers \cup {NoProvider} }

\* the identifiers of two blocks in one file, first block first
BlockPairs ==
  { <<nextjs, next>>, <<next, nextjs>>, <<deltars, nextjs>>,
    <<nextjs, deltars>>, <<NoProvider, nextjs>>, <<nextjs, nextjs>> }

\* two docs blocks between free text
TwoBlockFiles ==
  { <<"a","\n">> \o wrapWithMarkers(<<"p">>, AB[1]) \o <<"\n","\n">>
      \o wrapWithMarkers(x, AB[2]) \o <<"\n","c","\n">> :
      AB \in BlockPairs, x \in OldBodies }

\* host files whose markers are not a well-formed block
MalformedFiles ==
  { getEndMarker(NoProvider) \o getStartMarker(NoProvider),
    getEndMarker(nextjs) \o <<"a">> \o getStartMarker(nextjs),
    <<"a","b","c","d">> \o getStartMarker(NoProvider) \o <<"t">>,
    <<"a">> \o getStartMarker(deltars) \o <<"\n","t">>,
    <<"a","b","c","d">> \o START_MARKER_PREFIX,
    <<"a","b","c">> \o START_MARKER_PREFIX \o <<"t">>,
    getEndMarker(NoProvider) \o <<"a">> \o START_MARKER_PREFIX,
    SKILLS_END_MARKER \o <<"a">> \o SKILLS_START_MARKER,
    <<"a">> \o SKILLS_START_MARKER \o <<"t">> }

\* host files with a skills block, alone or beside a docs block
SkillsFiles ==
  { PS[1] \o SkillsBlock(<<"s">>) \o PS[2] : PS \in Surroundings }
  \cup
  { <<"a","\n">> \o wrapWithMarkers(<<"o">>, id) \o <<"\n","\n">>
      \o SkillsBlock(<<"s">>) \o <<"\n">> : id \in {NoProvider, nextjs} }

HostFiles ==
  FreeTexts \cup OneBlockFiles \cup TwoBlockFiles \cup MalformedFiles
    \cup SkillsFiles

(***************************************************************************)
(* State: one host file and the calls made on its content.                 *)
(***************************************************************************)
VARIABLES
  content,   \* the content of the host file
  origin,    \* the content the host file had at the start
  hist,      \* the calls made: [op, id, body, before], latest last
  pc,        \* "idle", or "sweep" inside the loop of removeDocsIndex(content)
  result,    \* the local `result` of removeDocsIndex inside the loop
  iter       \* iterations of the loop made by the running call

hostVars == <<content, origin, hist, pc, result, iter>>

(***************************************************************************)
(* State of the calls of the pure library functions: the arguments drawn   *)
(* for a call and the value returned.  A run works on the host file or on  *)
(* one family of library functions; the variables of the others stay at    *)
(* <<>>.                                                                   *)
(***************************************************************************)
VARIABLES
  step,        \* "none", or how far the calls of the run have come
  files,       \* buildDocTree: the relative paths of the argument `files`
  alt,         \* a permutation of files
  tree,        \* buildDocTree(files)
  altTree,     \* buildDocTree(alt)
  opts,        \* generateIndex: the IndexOptions besides `sections`
  index,       \* generateIndex(opts with sections = tree)
  skills,      \* generateSkillsIndex: the SkillEntry list
  skillsOpts,  \* generateSkillsIndex: the options
  skillsIndex, \* generateSkillsIndex(skills, skillsOpts)
  skillMd,     \* parseSkillFrontmatter: the content of a SKILL.md
  frontmatter, \* parseSkillFrontmatter(skillMd)
  repo,        \* discoverSkillsShRepo: the repository directory
  discovered   \* discoverSkillsShRepo(repo, repoName)

docVars == <<files, alt, tree, altTree, opts, index>>

skillsVars == <<skills, skillsOpts, skillsIndex>>

frontmatterVars == <<skillMd, frontmatter>>

repoVars == <<repo, discovered>>

HostUnused ==
  /\ content = <<>>
  /\ origin = <<>>
  /\ hist = <<>>
  /\ pc = "idle"
  /\ result = <<>>
  /\ iter = 0

DocsUnused ==
  /\ files = <<>>
  /\ alt = <<>>
  /\ tree = <<>>
  /\ altTree = <<>>
  /\ opts = <<>>
  /\ index = <<>>

SkillsUnused ==
  /\ skills = <<>>
  /\ skillsOpts = <<>>
  /\ skillsIndex = <<>>

FrontmatterUnused ==
  /\ skillMd = <<>>
  /\ frontmatter = <<>>

RepoUnused ==
  /\ repo = <<>>
  /\ discovered = <<>>

(***************************************************************************)
(* State of the operations that work on the file system, on overlapping    *)
(* calls and on the terminal: the discovery of skills from several         *)
(* sources, embed and embedSkills, loadConfig, ensureGitignoreEntry and    *)
(* the interactive multiselect.  As above, a run works on one of them and  *)
(* the variables of the others stay at <<>>.                               *)
(***************************************************************************)
VARIABLES
  sources,      \* collectAllSkills: the sources, each with its directory
  collected,    \* collectAllSkills(sources)
  disk,         \* embed, embedSkills: the host file and .gitignore
  calls,        \* embed, embedSkills: the calls started, with their locals
  configFiles,  \* loadConfig: .agdexrc.json and package.json
  config,       \* loadConfig(cwd)
  gitignore,    \* ensureGitignoreEntry: the .gitignore file and docsDir
  statuses,     \* ensureGitignoreEntry: the GitignoreStatus of each call
  items,        \* configurableMultiselect: the items
  cursor,       \* configurableMultiselect: the cursor
  state,        \* configurableMultiselect: the State
  editBuffer,   \* configurableMultiselect: the edit buffer
  keys,         \* configurableMultiselect: the key events handled
  resolved      \* configurableMultiselect: the value the promise resolved to

collectVars == <<sources, collected>>

embedVars == <<disk, calls>>

configVars == <<configFiles, config>>

gitignoreVars == <<gitignore, statuses>>

selectVars == <<items, cursor, state, editBuffer, keys, resolved>>

systemVars ==
  <<collectVars, embedVars, configVars, gitignoreVars, selectVars>>

pureVars == <<docVars, skillsVars, frontmatterVars, repoVars>>

libraryVars == <<step, pureVars, systemVars>>

vars == <<hostVars, libraryVars>>

PureUnused ==
  /\ DocsUnused
  /\ SkillsUnused
  /\ FrontmatterUnused
  /\ RepoUnused

CollectUnused ==
  /\ sources = <<>>
  /\ collected = <<>>

EmbedUnused ==
  /\ disk = <<>>
  /\ calls = <<>>

ConfigUnused ==
  /\ configFiles = <<>>
  /\ config = <<>>

GitignoreUnused ==
  /\ gitignore = <<>>
  /\ statuses = <<>>

SelectUnused ==
  /\ items = <<>>
  /\ cursor = 0
  /\ state = <<>>
  /\ editBuffer = <<>>
  /\ keys = <<>>
  /\ resolved = <<>>

SystemUnused ==
  /\ CollectUnused
  /\ EmbedUnused
  /\ ConfigUnused
  /\ GitignoreUnused
  /\ SelectUnused

Call(op, id, body) == [op |-> op, id |-> id, body |-> body, before |-> content]

Init ==
  /\ content \in HostFiles
  /\ origin = content
  /\ hist = <<>>
  /\ pc = "idle"
  /\ result = <<>>
  /\ iter = 0
  /\ step = "none"
  /\ DocsUnused
  /\ SkillsUnused
  /\ FrontmatterUnused
  /\ RepoUnused
  /\ SystemUnused

\* content := injectIndex(content, body, id)
Inject(id, body) ==
  /\ pc = "idle"
  /\ Len(hist) < MaxOps
  /\ content' = injectIndex(content, body, id)
  /\ hist' = Append(hist, Call("inject", id, body))
  /\ UNCHANGED <<origin, pc, result, iter>>
  /\ UNCHANGED libraryVars

\* content := removeDocsIndex(content, id), when the call returns without
\* entering the sweep-all loop
RemoveDocs(id) ==
  /\ pc = "idle"
  /\ Len(hist) < MaxOps
  /\ ~hasExistingIndex(content, id) \/ id # NoProvider
  /\ content' = removeDocsIndex(content, id)
  /\ hist' = Append(hist, Call("remove", id, <<>>))
  /\ UNCHANGED <<origin, pc, result, iter>>
  /\ UNCHANGED libraryVars

\* removeDocsIndex(content) reaches its loop: let result = content
SweepBegin ==
  /\ pc = "idle"
  /\ Len(hist) < MaxOps
  /\ hasExistingIndex(content, NoProvider)
  /\ pc' = "sweep"
  /\ result' = content
  /\ iter' = 0
  /\ UNCHANGED <<content, origin, hist>>
  /\ UNCHANGED libraryVars

\* the loop condition holds: one iteration
SweepStep ==
  /\ pc = "sweep"
  /\ indexOf(result, START_MARKER_PREFIX) # -1
  /\ iter < MaxIter
  /\ result' = sweepIteration(result)
  /\ iter' = iter + 1
  /\ UNCHANGED <<content, origin, hist, pc>>
  /\ UNCHANGED libraryVars

\* the loop condition fails: clean up, return, and the caller stores the value
SweepEnd ==
  /\ pc = "sweep"
  /\ indexOf(result, START_MARKER_PREFIX) = -1
  /\ content' = cleanupWhitespace(result)
  /\ hist' = Append(hist, Call("remove", NoProvider, <<>>))
  /\ pc' = "idle"
  /\ result' = <<>>
  /\ UNCHANGED <<origin, iter>>
  /\ UNCHANGED libraryVars

\* content := injectSkillsIndex(content, body)
InjectSkills(body) ==
  /\ pc = "idle"
  /\ Len(hist) < MaxOps
  /\ content' = injectSkillsIndex(content, body)
  /\ hist' = Append(hist, Call("injectSkills", NoProvider, body))
  /\ UNCHANGED <<origin, pc, result, iter>>
  /\ UNCHANGED libraryVars

\* content := removeSkillsIndex(content)
RemoveSkills ==
  /\ pc = "idle"
  /\ Len(hist) < MaxOps
  /\ content' = removeSkillsIndex(content)
  /\ hist' = Append(hist, Call("removeSkills", NoProvider, <<>>))
  /\ UNCHANGED <<origin, pc, result, iter>>
  /\ UNCHANGED libraryVars

Next ==
  \/ \E id \in Providers \cup {NoProvider}, body \in Bodies : Inject(id, body)
  \/ \E id \in Providers \cup {NoProvider} : RemoveDocs(id)
  \/ SweepBegin
  \/ SweepStep
  \/ SweepEnd
  \/ \E body \in Bodies : InjectSkills(body)
  \/ RemoveSkills

Spec == Init /\ [][Next]_vars

(***************************************************************************)
(* Vocabulary of the properties.                                           *)
(***************************************************************************)
\* the number of calls made, the latest call, and the content it was given
NCalls == Len(hist)

Last == hist[NCalls]

\* the two latest calls were made with the same operation, id and body
Repeated ==
  /\ NCalls >= 2
  /\ hist[NCalls - 1].op = Last.op
  /\ hist[NCalls - 1].id = Last.id
  /\ hist[NCalls - 1].body = Last.body

\* the 0-based positions at which needle occurs in s
Occurrences(s, needle) ==
  { i \in 0..(Len(s) - Len(needle)) :
      s[i + 1] = needle[1] /\ matchAt(s, needle, i) }

Count(s, needle) == Cardinality(Occurrences(s, needle))

\* what every marker of the tool starts with
MarkerText ==
  <<"<","!","-","-"," ","A","G","E","N","T","S","-","M","D","-">>

MarkerFree(s) == Occurrences(s, MarkerText) = {}

\* the marker pair a call works on
StartOf(call) ==
  IF call.op \in {"injectSkills", "removeSkills"} THEN SKILLS_START_MARKER
  ELSE getStartMarker(call.id)

EndOf(call) ==
  IF call.op \in {"injectSkills", "removeSkills"} THEN SKILLS_END_MARKER
  ELSE getEndMarker(call.id)

\* <start>\n<body>\n<end>
Wrapped(call) == StartOf(call) \o <<"\n">> \o call.body \o <<"\n">> \o EndOf(call)

\* C1: inject is idempotent: a second inject with the same body and the same
\* identifier returns what the first returned, for injectIndex and for
\* injectSkillsIndex, whatever the host content was
C1_InjectIdempotent ==
  (Repeated /\ Last.op \in {"inject", "injectSkills"})
    => content = Last.before

\* C2: from a marker-free host content, after any sequence of injectIndex and
\* removeDocsIndex calls, the content holds at most one start marker and at
\* most one end marker per identifier, and each start marker is followed by
\* its end marker
C2_SingleBlock ==
  (/\ MarkerFree(origin)
   /\ \A k \in 1..NCalls : hist[k].op \in {"inject", "remove"})
    => \A id \in Providers \cup {NoProvider} :
         LET starts == Occurrences(content, getStartMarker(id))
             ends   == Occurrences(content, getEndMarker(id))
         IN  /\ Cardinality(starts) <= 1
             /\ Cardinality(ends) <= 1
             /\ \A i \in starts : \E j \in ends : j > i

\* C3: inject leaves everything outside its block alone: the result is the
\* old content, a separator and the new block, or the old content with
\* exactly the span from the start marker through the end marker replaced
C3_InjectFrame ==
  (NCalls >= 1 /\ Last.op \in {"inject", "injectSkills"})
    => LET c == Last.before
           w == Wrapped(Last)
       IN  \/ \E sep \in {<<>>, <<"\n">>, <<"\n", "\n">>} :
                content = c \o sep \o w \o <<"\n">>
           \/ \E i \in Occurrences(c, StartOf(Last)) :
                \E j \in Occurrences(c, EndOf(Last)) :
                  /\ i + Len(StartOf(Last)) <= j
                  /\ content = slice(c, 0, i) \o w
                                 \o sliceFrom(c, j + Len(EndOf(Last)))

\* C4: replace keeps prefix and suffix: when the content is
\* P + start + X + end + S, P without the start marker and P and X without
\* the end marker, inject returns P + start + '\n' + body + '\n' + end + S
C4_ReplacePreserves ==
  (NCalls >= 1 /\ Last.op \in {"inject", "injectSkills"})
    => LET c  == Last.before
           st == StartOf(Last)
           en == EndOf(Last)
       IN  \A i \in Occurrences(c, st) : \A j \in Occurrences(c, en) :
             LET P == slice(c, 0, i)
                 X == slice(c, i + Len(st), j)
                 S == sliceFrom(c, j + Len(en))
             IN  (/\ i + Len(st) <= j
                  /\ Occurrences(P, st) = {}
                  /\ Occurrences(P, en) = {}
                  /\ Occurrences(X, en) = {})
                   => content = P \o Wrapped(Last) \o S

\* a well-formed block between a non-empty prefix and a non-empty suffix had
\* its body replaced by a different one
C4_Witness ==
  /\ NCalls >= 1
  /\ Last.op = "inject"
  /\ Last.id = nextjs
  /\ \E P \in Prefixes \ {<<>>}, S \in Suffixes \ {<<>>} :
       /\ Last.before = P \o wrapWithMarkers(<<"o">>, nextjs) \o S
       /\ content = P \o wrapWithMarkers(Last.body, nextjs) \o S
  /\ content # Last.before

\* content holds exactly one start and one end marker of id, in this order
HoldsBlock(c, id) ==
  /\ Count(c, getStartMarker(id)) = 1
  /\ Count(c, getEndMarker(id)) = 1
  /\ \A i \in Occurrences(c, getStartMarker(id)) :
       \A j \in Occurrences(c, getEndMarker(id)) :
         i + Len(getStartMarker(id)) <= j

\* where the block of id starts and where it ends (exclusive), 0-based
BlockFrom(c, id) == CHOOSE i \in Occurrences(c, getStartMarker(id)) : TRUE

BlockTo(c, id) ==
  (CHOOSE j \in Occurrences(c, getEndMarker(id)) : TRUE) + Len(getEndMarker(id))

BlockText(c, id) == slice(c, BlockFrom(c, id), BlockTo(c, id))

\* text that holds no part of a marker: no comment opener and no ' -->'
PlainText(t) ==
  /\ Occurrences(t, <<"<", "!", "-", "-">>) = {}
  /\ Occurrences(t, MARKER_SUFFIX) = {}

\* content is one well-formed block of A, one of B, side by side, and plain
\* text before, between and after them
HoldsBoth(c, A, B) ==
  /\ HoldsBlock(c, A)
  /\ HoldsBlock(c, B)
  /\ \/ BlockTo(c, A) <= BlockFrom(c, B)
     \/ BlockTo(c, B) <= BlockFrom(c, A)
  /\ PlainText(slice(c, 0, Min(BlockFrom(c, A), BlockFrom(c, B))))
  /\ PlainText(slice(c, Min(BlockTo(c, A), BlockTo(c, B)),
                        Max(BlockFrom(c, A), BlockFrom(c, B))))
  /\ PlainText(sliceFrom(c, Max(BlockTo(c, A), BlockTo(c, B))))

\* the block of B is in `after` as it was in `before`, once
SameBlock(before, after, B) ==
  /\ Count(after, BlockText(before, B)) = 1
  /\ Count(after, getStartMarker(B)) = 1
  /\ Count(after, getEndMarker(B)) = 1

\* C5 as stated: injectIndex(c, b, A) and removeDocsIndex(c, A) leave the
\* block of every other identifier B byte-identical and present once
C5_OtherBlocksUntouched ==
  (NCalls >= 1 /\ Last.op \in {"inject", "remove"} /\ Last.id # NoProvider)
    => \A B \in Providers \ {Last.id} :
         HoldsBoth(Last.before, Last.id, B)
           => SameBlock(Last.before, content, B)

\* C5 amended: the same, for removeDocsIndex only when the block of B holds
\* no run of three or more newlines (the whitespace cleanup of a removal
\* runs over the whole content)
C5_OtherBlocksUntouchedAmended ==
  (NCalls >= 1 /\ Last.op \in {"inject", "remove"} /\ Last.id # NoProvider)
    => \A B \in Providers \ {Last.id} :
         (/\ HoldsBoth(Last.before, Last.id, B)
          /\ \/ Last.op = "inject"
             \/ Occurrences(BlockText(Last.before, B), <<"\n", "\n", "\n">>) = {})
           => SameBlock(Last.before, content, B)

\* the block of 'next' was removed from a file that also holds a block of
\* 'nextjs', which is still there
C5_Witness ==
  /\ NCalls >= 1
  /\ Last.op = "remove"
  /\ Last.id = next
  /\ HoldsBoth(Last.before, next, nextjs)
  /\ ~includes(content, getStartMarker(next))
  /\ SameBlock(Last.before, content, nextjs)

\* the characters of a sequence
Chars(s) == { s[i] : i \in 1..Len(s) }

\* C6: removeDocsIndex(c) without identifier, on free text with well-formed
\* docs blocks of any identifiers, leaves no docs start marker, no docs end
\* marker and no block body (the bodies of the host files are 'o' and 'p')
C6_SweepRemovesAll ==
  (/\ NCalls >= 1
   /\ Last.op = "remove"
   /\ Last.id = NoProvider
   /\ Last.before \in OneBlockFiles \cup TwoBlockFiles)
    => /\ Occurrences(content, START_MARKER_PREFIX) = {}
       /\ Occurrences(content, END_MARKER_PREFIX) = {}
       /\ Chars(content) \cap {"o", "p"} = {}

\* C7: every iteration of the sweep-all loop strictly reduces the number of
\* start-marker prefixes left in the working string
C7_SweepIterationReduces ==
  [][SweepStep => Count(result', START_MARKER_PREFIX)
                    < Count(result, START_MARKER_PREFIX)]_vars

\* the separator of the append rule
AppendSeparator(c) ==
  IF c = <<>> THEN <<>>
  ELSE IF c[Len(c)] = "\n" THEN <<"\n">> ELSE <<"\n", "\n">>

\* the content a call was given holds no block for the call to replace
NoBlockBefore(call) ==
  /\ Occurrences(call.before, StartOf(call)) = {}
  /\ (call.op \in {"inject", "remove"} /\ call.id = NoProvider)
       => Occurrences(call.before, START_MARKER_PREFIX) = {}

\* C8: without an existing block inject returns c + sep + start + '\n' + body
\* + '\n' + end + '\n', sep empty for an empty c, '\n' for a c that ends with
\* a newline, '\n\n' otherwise
C8_AppendSeparator ==
  (/\ NCalls >= 1
   /\ Last.op \in {"inject", "injectSkills"}
   /\ NoBlockBefore(Last))
    => content = Last.before \o AppendSeparator(Last.before)
                   \o Wrapped(Last) \o <<"\n">>

RECURSIVE Squeeze(_)
\* s with every run of three or more newlines cut down to two
Squeeze(s) ==
  IF Len(s) < 3 THEN s
  ELSE IF s[1] = "\n" /\ s[2] = "\n" /\ s[3] = "\n" THEN Squeeze(Tail(s))
  ELSE <<Head(s)>> \o Squeeze(Tail(s))

\* N of C9: runs of newlines squeezed, trailing whitespace cut, and one
\* newline put back when something is left
NormalForm(s) ==
  LET q    == Squeeze(s)
      keep == { i \in 1..Len(q) : q[i] \notin WhiteSpace }
      n    == IF keep = {} THEN 0
              ELSE CHOOSE i \in keep : \A j \in keep : j <= i
  IN  IF n = 0 THEN <<>> ELSE SubSeq(q, 1, n) \o <<"\n">>

\* the latest call removed what the call before it injected
InjectThenRemove ==
  /\ NCalls >= 2
  /\ \/ hist[NCalls - 1].op = "inject" /\ Last.op = "remove"
     \/ hist[NCalls - 1].op = "injectSkills" /\ Last.op = "removeSkills"
  /\ hist[NCalls - 1].id = Last.id

\* C9: round trip: removing what was just injected gives N(c) for a
\* marker-free c, and N(P + S) for c = P + block + S with P, S and the old body
\* marker-free; the same for the skills pair
C9_RoundTrip ==
  InjectThenRemove
    => LET c  == hist[NCalls - 1].before
           st == StartOf(Last)
           en == EndOf(Last)
       IN  /\ MarkerFree(c) => content = NormalForm(c)
           /\ \A i \in Occurrences(c, st) : \A j \in Occurrences(c, en) :
                LET P == slice(c, 0, i)
                    X == slice(c, i + Len(st), j)
                    S == sliceFrom(c, j + Len(en))
                IN  (/\ i + Len(st) <= j
                     /\ MarkerFree(P) /\ MarkerFree(X) /\ MarkerFree(S))
                      => content = NormalForm(P \o S)

\* a block of 'delta-rs' between a prefix and a suffix was replaced and then
\* removed, and what is left is the normal form of prefix + suffix, which
\* differs from prefix + suffix
C9_Witness ==
  /\ InjectThenRemove
  /\ Last.id = deltars
  /\ \E P \in Prefixes \ {<<>>}, S \in Suffixes \ {<<>>} :
       /\ hist[NCalls - 1].before = P \o wrapWithMarkers(<<"o">>, deltars) \o S
       /\ content = NormalForm(P \o S)
       /\ content # P \o S

\* C10: remove is the identity when the start marker it looks for is absent
\* (any docs start marker, for a call without identifier): the content comes
\* back byte for byte, whitespace included
C10_RemoveIdentity ==
  (/\ NCalls >= 1
   /\ Last.op \in {"remove", "removeSkills"}
   /\ NoBlockBefore(Last))
    => content = Last.before

\* removeDocsIndex was called on marker-free content with a run of three
\* newlines and trailing blanks, and gave it back unchanged
C10_Witness ==
  /\ NCalls >= 1
  /\ Last.op = "remove"
  /\ Last.before = <<"a", "\n", "\n", "\n", "b", " ", " ">>
  /\ content = Last.before

(***************************************************************************)
(* C11: the whitespace of a removal's result.                              *)
(***************************************************************************)
\* the latest call is a removal that found its start marker in the content
RemovedFromBlock ==
  /\ NCalls > 0
  /\ \/ Last.op = "remove" /\ hasExistingIndex(Last.before, Last.id)
     \/ Last.op = "removeSkills" /\ hasExistingSkillsIndex(Last.before)

\* s is empty, or ends with one newline that follows a non-whitespace character
SingleFinalNewline(s) ==
  \/ s = <<>>
  \/ /\ Len(s) >= 2
     /\ s[Len(s)] = "\n"
     /\ s[Len(s) - 1] \notin WhiteSpace

\* C11: whenever a block was present, the result of removeDocsIndex and of
\* removeSkillsIndex holds no run of three or more newlines, and is empty or
\* ends with exactly one newline that no other whitespace precedes
C11_RemovalWhitespace ==
  RemovedFromBlock =>
    /\ Occurrences(content, <<"\n","\n","\n">>) = {}
    /\ SingleFinalNewline(content)

\* a removal whose input held a run of three newlines and ended with the
\* block and one newline, the block following a newline: cutting the block
\* out leaves trailing whitespace, and the result is not empty
C11_Witness ==
  /\ RemovedFromBlock
  /\ Occurrences(Last.before, <<"\n","\n","\n">>) # {}
  /\ LET startIdx == indexOf(Last.before, StartOf(Last))
         endIdx   == indexOf(Last.before, EndOf(Last)) + Len(EndOf(Last))
     IN  /\ startIdx > 0
         /\ Last.before[startIdx] = "\n"
         /\ endIdx + 1 = Len(Last.before)
         /\ Last.before[Len(Last.before)] = "\n"
  /\ content # <<>>

(***************************************************************************)
(* The docs tree of src/lib/agents-md.ts: buildDocTree and generateIndex.  *)
(*                                                                         *)
(* A relative path is a sequence of characters.  A character is a string:  *)
(* the character itself, or "U+XXXX" for the code point XXXX.  A DocFile   *)
(* is modelled by its relativePath, its only field; a DocSection is a      *)
(* record [name, files, subsections].                                      *)
(***************************************************************************)
\* files in one argument of buildDocTree
MaxFiles == 3

RECURSIVE split(_, _)
\* s.split(sep), for a separator of one character
split(s, sep) ==
  LET i == indexOf(s, <<sep>>)
  IN  IF i = -1 THEN <<s>>
      ELSE <<slice(s, 0, i)>> \o split(sliceFrom(s, i + 1), sep)

\* the canonical decomposition of a character: U+00E9 (e with acute) is
\* U+0065 (e) followed by U+0301 (combining acute accent)
decompose(c) == IF c = "U+00E9" THEN <<"e", "U+0301">> ELSE <<c>>

RECURSIVE normalizeNFD(_)
normalizeNFD(s) ==
  IF s = <<>> THEN <<>> ELSE decompose(Head(s)) \o normalizeNFD(Tail(s))

\* the characters of the paths in the order of their primary weights in the
\* root collation; the combining accent has no primary weight
CollationOrder == <<"-", ".", "/", "a", "b", "c", "d", "e", "x", "y">>

primaryWeight(c) ==
  CHOOSE i \in 1..Len(CollationOrder) : CollationOrder[i] = c

\* the primary weights of s: those of its letters, accents left out
primaryKey(s) ==
  LET letters == SelectSeq(normalizeNFD(s), LAMBDA c : c # "U+0301")
  IN  [i \in 1..Len(letters) |-> primaryWeight(letters[i])]

\* the secondary weights of s: the common weight for a letter, a higher one
\* for an accent
secondaryKey(s) ==
  LET d == normalizeNFD(s)
  IN  [i \in 1..Len(d) |-> IF d[i] = "U+0301" THEN 1 ELSE 0]

\* the comparison of two sequences of weights: -1, 0 or 1
compareKeys(k1, k2) ==
  LET n    == Min(Len(k1), Len(k2))
      diff == { i \in 1..n : k1[i] # k2[i] }
  IN  IF diff # {}
      THEN IF k1[Least(diff)] < k2[Least(diff)] THEN -1 ELSE 1
      ELSE IF Len(k1) < Len(k2) THEN -1
      ELSE IF Len(k1) > Len(k2) THEN 1
      ELSE 0

\* a.localeCompare(b): primary weights first, then secondary weights; 0 for
\* canonically equivalent strings (ECMA-262, String.prototype.localeCompare)
localeCompare(a, b) ==
  LET p == compareKeys(primaryKey(a), primaryKey(b))
  IN  IF p # 0 THEN p ELSE compareKeys(secondaryKey(a), secondaryKey(b))

RECURSIVE insertFile(_, _)
\* f put into the sorted list s behind every element that does not follow it
insertFile(s, f) ==
  IF s = <<>> THEN <<f>>
  ELSE IF localeCompare(f, s[Len(s)]) >= 0 THEN Append(s, f)
  ELSE Append(insertFile(SubSeq(s, 1, Len(s) - 1), f), s[Len(s)])

RECURSIVE sortFiles(_)
\* files.sort((a, b) => a.relativePath.localeCompare(b.relativePath)): the
\* sort of Array.prototype.sort is stable
sortFiles(s) ==
  IF s = <<>> THEN <<>>
  ELSE insertFile(sortFiles(SubSeq(s, 1, Len(s) - 1)), s[Len(s)])

RECURSIVE insertSection(_, _)
insertSection(s, x) ==
  IF s = <<>> THEN <<x>>
  ELSE IF localeCompare(x.name, s[Len(s)].name) >= 0 THEN Append(s, x)
  ELSE Append(insertSection(SubSeq(s, 1, Len(s) - 1), x), s[Len(s)])

\* the sections left in the order of their creation
sortSections_unsorted(s) == s

RECURSIVE sortSections(_)
\* sections.sort((a, b) => a.name.localeCompare(b.name))
sortSections(s) ==
  IF s = <<>> THEN <<>>
  ELSE insertSection(sortSections(SubSeq(s, 1, Len(s) - 1)), s[Len(s)])

\* the position in nodes of the node named name, 0 when there is none
findSection(nodes, name) ==
  LET at == { i \in 1..Len(nodes) : nodes[i].name = name }
  IN  IF at = {} THEN 0 ELSE Least(at)

\* nodes, with a new empty node named name at its end when it has none
withSection(nodes, name) ==
  IF findSection(nodes, name) # 0 THEN nodes
  ELSE Append(nodes, [name |-> name, files |-> <<>>, subsections |-> <<>>])

\* the body of the loop with every path of three or more segments put into
\* the subsection of its second segment
addFile_twoLevels(sections, relativePath) ==
  LET parts       == split(relativePath, "/")
      topLevelDir == IF Len(parts) = 1 THEN <<".">> ELSE parts[1]
      secs        == withSection(sections, topLevelDir)
      s           == findSection(secs, topLevelDir)
  IN  IF Len(parts) <= 2
      THEN [secs EXCEPT ![s].files = Append(@, relativePath)]
      ELSE LET subs == withSection(secs[s].subsections, parts[2])
               u    == findSection(subs, parts[2])
           IN  [secs EXCEPT ![s].subsections =
                  [subs EXCEPT ![u].files = Append(@, relativePath)]]

\* the body of the loop of buildDocTree: sections (in the order of their
\* creation) after the file is placed
addFile(sections, relativePath) ==
  LET parts       == split(relativePath, "/")
      topLevelDir == IF Len(parts) = 1 THEN <<".">> ELSE parts[1]
      secs        == withSection(sections, topLevelDir)
      s           == findSection(secs, topLevelDir)
  IN  IF Len(parts) <= 2
      THEN [secs EXCEPT ![s].files = Append(@, relativePath)]
      ELSE LET subs == withSection(secs[s].subsections, parts[2])
               u    == findSection(subs, parts[2])
           IN  IF Len(parts) = 3
               THEN [secs EXCEPT ![s].subsections =
                       [subs EXCEPT ![u].files = Append(@, relativePath)]]
               ELSE LET subSubs == withSection(subs[u].subsections, parts[3])
                        v       == findSection(subSubs, parts[3])
                    IN  [secs EXCEPT ![s].subsections =
                          [subs EXCEPT ![u].subsections =
                            [subSubs EXCEPT ![v].files =
                               Append(@, relativePath)]]]

RECURSIVE addFiles(_, _)
\* the loop of buildDocTree over the files, first file first
addFiles(sections, fs) ==
  IF fs = <<>> THEN sections
  ELSE addFiles(addFile(sections, Head(fs)), Tail(fs))

\* a subsection with its files, its sub-subsections and their files sorted
sortSubsection(node) ==
  LET subs == sortSections(node.subsections)
  IN  [node EXCEPT !.files = sortFiles(@),
                   !.subsections =
                     [i \in 1..Len(subs) |->
                        [subs[i] EXCEPT !.files = sortFiles(@)]]]

\* a section with everything in it sorted
sortSection(node) ==
  LET subs == sortSections(node.subsections)
  IN  [node EXCEPT !.files = sortFiles(@),
                   !.subsections =
                     [i \in 1..Len(subs) |-> sortSubsection(subs[i])]]

buildDocTree(fs) ==
  LET sortedSections == sortSections(addFiles(<<>>, fs))
  IN  [i \in 1..Len(sortedSections) |-> sortSection(sortedSections[i])]


(***************************************************************************)
(* generateIndex.                                                          *)
(***************************************************************************)
\* the text after the provider name in `[${providerName} Docs Index]`
DOCS_INDEX_CLOSE ==
  <<" ","D","o","c","s"," ","I","n","d","e","x","]">>

\* '[Docs Index]'
DOCS_INDEX_HEADER ==
  <<"[","D","o","c","s"," ","I","n","d","e","x","]">>

\* the text before the path in `root: ${docsPath}`
ROOT_LABEL ==
  <<"r","o","o","t",":"," ">>

\* the text before the command in `If docs missing, run: ${cmd}`
IF_MISSING ==
  <<"I","f"," ","d","o","c","s"," ","m","i","s","s","i","n","g",","," ","r","u","n",":"," ">>

\* the text before the file in `npx agdex --output ${targetFile}`
NPX_OUTPUT ==
  <<"n","p","x"," ","a","g","d","e","x"," ","-","-","o","u","t","p","u","t"," ">>

\* 'AGENTS.md'
AGENTS_MD ==
  <<"A","G","E","N","T","S",".","m","d">>

RECURSIVE collectAllFilesFromSections_subsectionsFirst(_)
\* the walk with a node's subsections ahead of its own files
collectAllFilesFromSections_subsectionsFirst(sections) ==
  IF sections = <<>> THEN <<>>
  ELSE collectAllFilesFromSections_subsectionsFirst(Head(sections).subsections)
         \o Head(sections).files
         \o collectAllFilesFromSections_subsectionsFirst(Tail(sections))

RECURSIVE collectAllFilesFromSections(_)
\* the relative paths of the sections: a node's files, then its subsections
collectAllFilesFromSections(sections) ==
  IF sections = <<>> THEN <<>>
  ELSE Head(sections).files
         \o collectAllFilesFromSections(Head(sections).subsections)
         \o collectAllFilesFromSections(Tail(sections))

\* s.lastIndexOf(c), for a character c
lastIndexOf(s, c) ==
  LET at == { i \in 0..(Len(s) - 1) : s[i + 1] = c }
  IN  IF at = {} THEN -1 ELSE CHOOSE i \in at : \A j \in at : j <= i

\* the position in groups of the group of directory dir, 0 when there is none
findGroup(groups, dir) ==
  LET at == { i \in 1..Len(groups) : groups[i].dir = dir }
  IN  IF at = {} THEN 0 ELSE Least(at)

\* the body of the loop with the directory cut at the first '/' of the path
groupFile_firstSlash(grouped, filePath) ==
  LET firstSlash == indexOf(filePath, <<"/">>)
      dir        == IF firstSlash = -1 THEN <<".">>
                    ELSE slice(filePath, 0, firstSlash)
      fileName   == IF firstSlash = -1 THEN filePath
                    ELSE sliceFrom(filePath, firstSlash + 1)
      existing   == findGroup(grouped, dir)
  IN  IF existing # 0
      THEN [grouped EXCEPT ![existing].files = Append(@, fileName)]
      ELSE Append(grouped, [dir |-> dir, files |-> <<fileName>>])

\* the body of the loop of groupByDirectory; the Map is the sequence of its
\* entries [dir, files] in the order of their insertion
groupFile(grouped, filePath) ==
  LET lastSlash == lastIndexOf(filePath, "/")
      dir       == IF lastSlash = -1 THEN <<".">>
                   ELSE slice(filePath, 0, lastSlash)
      fileName  == IF lastSlash = -1 THEN filePath
                   ELSE sliceFrom(filePath, lastSlash + 1)
      existing  == findGroup(grouped, dir)
  IN  IF existing # 0
      THEN [grouped EXCEPT ![existing].files = Append(@, fileName)]
      ELSE Append(grouped, [dir |-> dir, files |-> <<fileName>>])

RECURSIVE groupFiles(_, _)
groupFiles(grouped, fs) ==
  IF fs = <<>> THEN grouped
  ELSE groupFiles(groupFile(grouped, Head(fs)), Tail(fs))

groupByDirectory(fs) == groupFiles(<<>>, fs)

RECURSIVE join(_, _)
\* parts.join(sep)
join(parts, sep) ==
  IF parts = <<>> THEN <<>>
  ELSE IF Len(parts) = 1 THEN parts[1]
  ELSE parts[1] \o sep \o join(Tail(parts), sep)

\* an option that is not given; '' and undefined take the same branches of
\* generateIndex
NotGiven == <<>>

\* `${dir}:{${files.join(',')}}`
directorySegment(group) ==
  group.dir \o <<":", "{">> \o join(group.files, <<",">>) \o <<"}">>

\* the array `parts` of generateIndex before the join
indexParts(options, sections) ==
  LET header     == IF options.providerName # NotGiven
                    THEN <<"[">> \o options.providerName
                           \o DOCS_INDEX_CLOSE
                    ELSE DOCS_INDEX_HEADER
      targetFile == IF options.outputFile # NotGiven
                    THEN options.outputFile ELSE AGENTS_MD
      cmd        == IF options.regenerateCommand # NotGiven
                    THEN options.regenerateCommand
                    ELSE NPX_OUTPUT \o targetFile
      grouped    == groupByDirectory(collectAllFilesFromSections(sections))
  IN  <<header, ROOT_LABEL \o options.docsPath>>
        \o (IF options.instruction # NotGiven
            THEN <<options.instruction>> ELSE <<>>)
        \o (IF options.description # NotGiven
            THEN <<options.description>> ELSE <<>>)
        \o <<IF_MISSING \o cmd>>
        \o [i \in 1..Len(grouped) |-> directorySegment(grouped[i])]

\* generateIndex(options), options.sections being sections
generateIndex(options, sections) == join(indexParts(options, sections), <<"|">>)


(***************************************************************************)
(* The calls of buildDocTree and generateIndex.                            *)
(***************************************************************************)
\* relative paths of one to five segments; the first two are canonically
\* equivalent
DocPaths ==
  { <<"U+00E9">>,
    <<"e","U+0301">>,
    <<"a","/","x">>,
    <<"a","/","y">>,
    <<"a","/","c","/","x">>,
    <<"a","/","b","/","d","/","x">>,
    <<"a","/","b","/","c","/","d","/","x">> }

DocFileLists == UNION { [1..n -> DocPaths] : n \in 0..MaxFiles }

IndexOption(providerName, instruction, description, outputFile, cmd) ==
  [ docsPath          |-> <<".", "d">>,
    providerName      |-> providerName,
    instruction       |-> instruction,
    description       |-> description,
    outputFile        |-> outputFile,
    regenerateCommand |-> cmd ]

IndexOptions ==
  { IndexOption(NotGiven, NotGiven, NotGiven, NotGiven, NotGiven),
    IndexOption(<<"P">>, <<"I">>, <<"S">>, <<"O">>, <<"R">>),
    IndexOption(<<"P">>, NotGiven, NotGiven, <<"O">>, NotGiven),
    IndexOption(NotGiven, <<"I">>, NotGiven, NotGiven, NotGiven),
    IndexOption(NotGiven, NotGiven, <<"S">>, NotGiven, <<"R">>),
    IndexOption(NotGiven, <<"I", "|", "J">>, <<"S">>, <<"O">>, NotGiven) }

\* the permutations of 1..n
Perms(n) ==
  { p \in [1..n -> 1..n] : \A i, j \in 1..n : i # j => p[i] # p[j] }

InitTree ==
  /\ step = "files"
  /\ files \in DocFileLists
  /\ alt = <<>>
  /\ tree = <<>>
  /\ altTree = <<>>
  /\ opts = <<>>
  /\ index = <<>>
  /\ HostUnused
  /\ SystemUnused
  /\ SkillsUnused
  /\ FrontmatterUnused
  /\ RepoUnused

\* tree := buildDocTree(files)
BuildTree ==
  /\ step = "files"
  /\ tree' = buildDocTree(files)
  /\ step' = "tree"
  /\ UNCHANGED <<files, alt, altTree, opts, index>>
  /\ UNCHANGED <<hostVars, skillsVars, frontmatterVars, repoVars, systemVars>>

\* altTree := buildDocTree(alt), alt the files in another order
BuildPermuted ==
  /\ step = "tree"
  /\ \E p \in Perms(Len(files)) :
       /\ alt' = [i \in 1..Len(files) |-> files[p[i]]]
       /\ altTree' = buildDocTree(alt')
  /\ step' = "permuted"
  /\ UNCHANGED <<files, tree, opts, index>>
  /\ UNCHANGED <<hostVars, skillsVars, frontmatterVars, repoVars, systemVars>>

\* index := generateIndex({ ...options, sections: tree })
GenerateIndex ==
  /\ step = "tree"
  /\ \E options \in IndexOptions :
       /\ opts' = options
       /\ index' = generateIndex(options, tree)
  /\ step' = "index"
  /\ UNCHANGED <<files, alt, tree, altTree>>
  /\ UNCHANGED <<hostVars, skillsVars, frontmatterVars, repoVars, systemVars>>

NextTree ==
  \/ BuildTree
  \/ BuildPermuted
  \/ GenerateIndex

SpecTree == InitTree /\ [][NextTree]_vars

(***************************************************************************)
(* C12-C15: the tree buildDocTree returns and the index made of it.        *)
(***************************************************************************)
\* the nodes of a list of sections
Nodes(sections) == { sections[i] : i \in DOMAIN sections }

\* path is one of the files of node
HasFile(node, path) == \E k \in DOMAIN node.files : node.files[k] = path

\* C12: for every list of file paths and every permutation of it, duplicates
\* allowed, buildDocTree returns the same tree: the same sections,
\* subsections, sub-subsections and files in the same order
C12_OrderIndependent == step = "permuted" => altTree = tree

\* the path sits where the number of its segments puts it
Placed(sections, path) ==
  LET segment == split(path, "/")
      n       == Len(segment)
  IN  IF n = 1
      THEN \E s \in Nodes(sections) : s.name = <<".">> /\ HasFile(s, path)
      ELSE \E s \in Nodes(sections) :
             /\ s.name = segment[1]
             /\ IF n = 2 THEN HasFile(s, path)
                ELSE \E u \in Nodes(s.subsections) :
                       /\ u.name = segment[2]
                       /\ IF n = 3 THEN HasFile(u, path)
                          ELSE \E v \in Nodes(u.subsections) :
                                 /\ v.name = segment[3]
                                 /\ HasFile(v, path)

\* C13: a path of one segment is a file of the section named '.', a path of
\* two segments a file of section segment[0], a path of three segments a
\* file of subsection segment[1] under section segment[0], a path of four or
\* more segments a file, with its full relative path, of sub-subsection
\* segment[2] under them; no sub-subsection has subsections
C13_PlacementByDepth ==
  step # "files" =>
    /\ \A i \in DOMAIN files : Placed(tree, files[i])
    /\ \A s \in Nodes(tree) : \A u \in Nodes(s.subsections) :
         \A v \in Nodes(u.subsections) : v.subsections = <<>>

\* a tree built of a path of one segment, one of three and one of five
C13_Witness ==
  /\ step = "tree"
  /\ { Len(split(files[i], "/")) : i \in DOMAIN files } = {1, 3, 5}
  /\ \E s \in Nodes(tree) : \E u \in Nodes(s.subsections) :
       \E v \in Nodes(u.subsections) : Len(v.files) = 1

\* the nodes have pairwise distinct names, in ascending order of localeCompare
NamesAscending(sections) ==
  \A i, j \in DOMAIN sections :
    i < j => /\ sections[i].name # sections[j].name
             /\ localeCompare(sections[i].name, sections[j].name) <= 0

\* the files of the node are in ascending order of localeCompare
FilesAscending(node) ==
  \A i, j \in DOMAIN node.files :
    i < j => localeCompare(node.files[i], node.files[j]) <= 0

RECURSIVE Flat(_)
\* the concatenation of a sequence of sequences
Flat(ss) == IF ss = <<>> THEN <<>> ELSE Head(ss) \o Flat(Tail(ss))

\* the files of a tree of three levels in a depth-first walk, a node's own
\* files before its subsections
Walk(sections) ==
  Flat([i \in DOMAIN sections |->
    sections[i].files \o
    Flat([j \in DOMAIN sections[i].subsections |->
      sections[i].subsections[j].files \o
      Flat([k \in DOMAIN sections[i].subsections[j].subsections |->
        sections[i].subsections[j].subsections[k].files])])])

\* the directory of a path and its file name
DirOf(path) ==
  LET segment == split(path, "/")
  IN  IF Len(segment) = 1 THEN <<".">>
      ELSE join(SubSeq(segment, 1, Len(segment) - 1), <<"/">>)

NameOf(path) == split(path, "/")[Len(split(path, "/"))]

RECURSIVE Ascending(_)
\* the integers of a finite set in ascending order
Ascending(S) ==
  IF S = {} THEN <<>> ELSE <<Least(S)>> \o Ascending(S \ {Least(S)})

\* '<dir>:{f1,f2,...}' for the files of the walk that are in dir
DirSegment(walk, dir) ==
  LET inDir == SelectSeq(walk, LAMBDA p : DirOf(p) = dir)
  IN  dir \o <<":", "{">>
        \o join([i \in DOMAIN inDir |-> NameOf(inDir[i])], <<",">>)
        \o <<"}">>

\* the directory segments in the order the directories are first met
DirSegments(walk) ==
  LET firstMet == Ascending({ i \in DOMAIN walk :
                    \A j \in 1..(i - 1) : DirOf(walk[j]) # DirOf(walk[i]) })
  IN  [n \in DOMAIN firstMet |-> DirSegment(walk, DirOf(walk[firstMet[n]]))]

\* the segments the index is to have
ExpectedSegments(options, sections) ==
  <<IF options.providerName = NotGiven THEN DOCS_INDEX_HEADER
    ELSE <<"[">> \o options.providerName \o DOCS_INDEX_CLOSE,
    ROOT_LABEL \o options.docsPath>>
  \o (IF options.instruction = NotGiven THEN <<>>
      ELSE <<options.instruction>>)
  \o (IF options.description = NotGiven THEN <<>>
      ELSE <<options.description>>)
  \o <<IF_MISSING \o
       (IF options.regenerateCommand # NotGiven
        THEN options.regenerateCommand
        ELSE NPX_OUTPUT \o (IF options.outputFile # NotGiven
                            THEN options.outputFile ELSE AGENTS_MD))>>
  \o DirSegments(Walk(sections))

\* no option and no path holds a '|'
BarFree ==
  /\ \A f \in {"docsPath", "providerName", "instruction", "description",
               "outputFile", "regenerateCommand"} :
       ~includes(opts[f], <<"|">>)
  /\ \A i \in DOMAIN files : ~includes(files[i], <<"|">>)

\* C15: for inputs free of '|', the output of generateIndex split on '|' is
\* the header, 'root: <docsPath>', the instruction iff given, the description
\* iff given, 'If docs missing, run: <cmd>', then one '<dir>:{f1,f2,...}' per
\* directory in the order the directories are first met in a depth-first
\* walk of the sections
C15_IndexSegments ==
  (step = "index" /\ BarFree) =>
    split(index, "|") = ExpectedSegments(opts, tree)

\* an index with instruction and description, of files in three directories,
\* a node with files of its own and a subsection among them
C15_Witness ==
  /\ step = "index"
  /\ BarFree
  /\ opts.instruction # NotGiven
  /\ opts.description # NotGiven
  /\ Len(split(index, "|")) = 8
  /\ \E s \in Nodes(tree) : s.files # <<>> /\ s.subsections # <<>>


(***************************************************************************)
(* The skills index of src/lib/skills.ts: generateSkillsIndex and          *)
(* formatSkillEntry.  A SkillEntry is a record [name, description,         *)
(* skillMdPath, siblingFiles, source, pluginName]; source is one of        *)
(* "plugin", "skills-sh", "user", "project", and a pluginName that is not  *)
(* set is NotGiven.                                                        *)
(***************************************************************************)
\* entries in one argument of generateSkillsIndex
MaxSkills == 3
\* characters of a description whose escaping is followed
MaxDesc == 2

\* '[Skills Index]'
SKILLS_INDEX_HEADER ==
  <<"[","S","k","i","l","l","s"," ","I","n","d","e","x","]">>

\* the text before the command in `Regen: ${cmd}`
REGEN_LABEL ==
  <<"R","e","g","e","n",":"," ">>

\* 'npx agdex skills embed'
DEFAULT_REGEN ==
  <<"n","p","x"," ","a","g","d","e","x"," ","s","k","i","l","l","s"," ","e","m","b","e","d">>

\* the tag of a source in a segment of the index
sourceTag(source) ==
  CASE source = "plugin"    -> <<"p","l","u","g","i","n">>
    [] source = "skills-sh" -> <<"s","k","i","l","l","s","-","s","h">>
    [] source = "user"      -> <<"u","s","e","r">>
    [] source = "project"   -> <<"p","r","o","j","e","c","t">>

RECURSIVE replaceAll(_, _, _)
\* s.replace(/c/g, r), for a character c
replaceAll(s, c, r) ==
  IF s = <<>> THEN <<>>
  ELSE (IF Head(s) = c THEN r ELSE <<Head(s)>>) \o replaceAll(Tail(s), c, r)

\* the escaping that leaves ':' as it is
escapeDescription_noColon(description) ==
  LET p1 == replaceAll(description, "|", <<"\\", "|">>)
      p2 == replaceAll(p1, ";", <<"\\", ";">>)
      p4 == replaceAll(p2, "[", <<"\\", "[">>)
      p5 == replaceAll(p4, "]", <<"\\", "]">>)
      p6 == replaceAll(p5, "{", <<"\\", "{">>)
  IN  replaceAll(p6, "}", <<"\\", "}">>)

\* the seven replace passes of formatSkillEntry over the description
escapeDescription(description) ==
  LET p1 == replaceAll(description, "|", <<"\\", "|">>)
      p2 == replaceAll(p1, ";", <<"\\", ";">>)
      p3 == replaceAll(p2, ":", <<"\\", ":">>)
      p4 == replaceAll(p3, "[", <<"\\", "[">>)
      p5 == replaceAll(p4, "]", <<"\\", "]">>)
      p6 == replaceAll(p5, "{", <<"\\", "{">>)
  IN  replaceAll(p6, "}", <<"\\", "}">>)

formatSkillEntry(skill) ==
  LET desc == escapeDescription(skill.description)
  IN  IF Len(skill.siblingFiles) > 0
      THEN skill.name \o <<":">> \o desc \o <<"[">>
             \o join(skill.siblingFiles, <<",">>) \o <<"]">>
      ELSE skill.name \o <<":">> \o desc

\* the position in groups of the group of key, 0 when there is none
findSkillGroup(groups, key) ==
  LET at == { i \in 1..Len(groups) : groups[i].key = key }
  IN  IF at = {} THEN 0 ELSE Least(at)

RECURSIVE groupByPluginName(_, _)
\* the Map pluginSkills (source "plugin") or skillsShSkills (source
\* "skills-sh") after the loop over skills: its entries [key, entries] in
\* the order of their insertion
groupByPluginName(skillList, source) ==
  IF skillList = <<>> THEN <<>>
  ELSE LET rest  == groupByPluginName(SubSeq(skillList, 1, Len(skillList) - 1),
                                      source)
           skill == skillList[Len(skillList)]
           at    == findSkillGroup(rest, skill.pluginName)
       IN  IF skill.source # source \/ skill.pluginName = NotGiven THEN rest
           ELSE IF at # 0 THEN [rest EXCEPT ![at].entries = Append(@, skill)]
           ELSE Append(rest, [key |-> skill.pluginName, entries |-> <<skill>>])

\* the list userSkills (source "user") or projectSkills (source "project")
bySource(skillList, source) ==
  SelectSeq(skillList, LAMBDA skill : skill.source = source)

\* entries.map((s) => formatSkillEntry(s)).join(';')
skillParts(entries) ==
  join([i \in 1..Len(entries) |-> formatSkillEntry(entries[i])], <<";">>)

\* `plugin:${pluginName}:{${skillParts}}`, `skills-sh:${repoName}:{...}`
labelledSegment(source, group) ==
  sourceTag(source) \o <<":">> \o group.key \o <<":", "{">>
    \o skillParts(group.entries) \o <<"}">>

\* the segment pushed for an empty list as well
plainSegments_always(source, entries) ==
  <<sourceTag(source) \o <<":", "{">> \o skillParts(entries) \o <<"}">>>>

\* `user:{${skillParts}}`, `project:{${skillParts}}`, pushed for a list that
\* is not empty
plainSegments(source, entries) ==
  IF Len(entries) > 0
  THEN <<sourceTag(source) \o <<":", "{">> \o skillParts(entries) \o <<"}">>>>
  ELSE <<>>

\* the array `parts` of generateSkillsIndex before the join
skillsIndexParts(skillList, options) ==
  LET pluginSkills   == groupByPluginName(skillList, "plugin")
      skillsShSkills == groupByPluginName(skillList, "skills-sh")
      cmd            == IF options.regenerateCommand # NotGiven
                        THEN options.regenerateCommand ELSE DEFAULT_REGEN
  IN  <<SKILLS_INDEX_HEADER>>
        \o [i \in 1..Len(pluginSkills) |->
              labelledSegment("plugin", pluginSkills[i])]
        \o [i \in 1..Len(skillsShSkills) |->
              labelledSegment("skills-sh", skillsShSkills[i])]
        \o plainSegments("user", bySource(skillList, "user"))
        \o plainSegments("project", bySource(skillList, "project"))
        \o <<REGEN_LABEL \o cmd>>

generateSkillsIndex(skillList, options) ==
  join(skillsIndexParts(skillList, options), <<"|">>)


(***************************************************************************)
(* The calls of generateSkillsIndex.                                       *)
(***************************************************************************)
SkillEntry(name, description, siblingFiles, source, pluginName) ==
  [ name         |-> name,
    description  |-> description,
    skillMdPath  |-> name \o <<"/", "S">>,
    siblingFiles |-> siblingFiles,
    source       |-> source,
    pluginName   |-> pluginName ]

\* entries of the four sources; two of them are a plugin entry and a
\* skills-sh entry as discoverFlatSkills returns them, without pluginName
SkillEntries ==
  { SkillEntry(<<"a">>, <<"d">>, <<>>, "plugin", <<"p">>),
    SkillEntry(<<"b">>, <<"d">>, <<<<"f">>, <<"g">>>>, "plugin", <<"p">>),
    SkillEntry(<<"b">>, <<"e">>, <<>>, "plugin", <<"q">>),
    SkillEntry(<<"a">>, <<"d">>, <<>>, "plugin", NotGiven),
    SkillEntry(<<"a">>, <<"d">>, <<>>, "skills-sh", <<"p">>),
    SkillEntry(<<"b">>, <<"d">>, <<>>, "skills-sh", NotGiven),
    SkillEntry(<<"a">>, <<"x", "|", "y", ";">>, <<>>, "user", NotGiven),
    SkillEntry(<<"b">>, <<"d">>, <<<<"f">>>>, "user", NotGiven),
    SkillEntry(<<"a">>, <<"d">>, <<>>, "project", NotGiven) }

\* the characters of the descriptions whose escaping is followed
DescriptionChars == {"a", "\\", "|", ";", ":", "{", "}", "[", "]"}

Descriptions == UNION { [1..n -> DescriptionChars] : n \in 0..MaxDesc }

SkillLists ==
  UNION { [1..n -> SkillEntries] : n \in 0..MaxSkills }
    \cup { <<SkillEntry(<<"a">>, d, <<>>, "user", NotGiven)>> :
             d \in Descriptions }

SkillsOptions ==
  { [regenerateCommand |-> NotGiven], [regenerateCommand |-> <<"R">>] }

InitSkills ==
  /\ step = "skills"
  /\ skills \in SkillLists
  /\ skillsOpts \in SkillsOptions
  /\ skillsIndex = <<>>
  /\ HostUnused
  /\ SystemUnused
  /\ DocsUnused
  /\ FrontmatterUnused
  /\ RepoUnused

\* skillsIndex := generateSkillsIndex(skills, skillsOpts)
GenerateSkillsIndex ==
  /\ step = "skills"
  /\ skillsIndex' = generateSkillsIndex(skills, skillsOpts)
  /\ step' = "skillsIndex"
  /\ UNCHANGED <<skills, skillsOpts>>
  /\ UNCHANGED <<hostVars, docVars, frontmatterVars, repoVars, systemVars>>

NextSkills == GenerateSkillsIndex

SpecSkills == InitSkills /\ [][NextSkills]_vars

(***************************************************************************)
(* C16-C18: the segments of the skills index.                              *)
(***************************************************************************)
\* the pieces of s between the occurrences of the character c that no
\* backslash precedes
SplitUnescaped(s, c) ==
  LET cuts  == Ascending({ i \in DOMAIN s :
                 s[i] = c /\ (i = 1 \/ s[i - 1] # "\\") })
      from(n) == IF n = 1 THEN 1 ELSE cuts[n - 1] + 1
      to(n)   == IF n = Len(cuts) + 1 THEN Len(s) ELSE cuts[n] - 1
  IN  [n \in 1..(Len(cuts) + 1) |-> SubSeq(s, from(n), to(n))]

\* the segments of the index, and those between the header and the command
IndexSegments == SplitUnescaped(skillsIndex, "|")

GroupSegments == SubSeq(IndexSegments, 2, Len(IndexSegments) - 1)

\* the command the last segment is to hold
RegenCommand ==
  IF skillsOpts.regenerateCommand # NotGiven
  THEN skillsOpts.regenerateCommand ELSE DEFAULT_REGEN

\* 1 for a 'plugin:' segment, 2 for 'skills-sh:', 3 for 'user:{', 4 for
\* 'project:{', 0 for any other
SegmentRank(segment) ==
  IF matchAt(segment, sourceTag("plugin") \o <<":">>, 0) THEN 1
  ELSE IF matchAt(segment, sourceTag("skills-sh") \o <<":">>, 0) THEN 2
  ELSE IF matchAt(segment, sourceTag("user") \o <<":", "{">>, 0) THEN 3
  ELSE IF matchAt(segment, sourceTag("project") \o <<":", "{">>, 0) THEN 4
  ELSE 0

\* C16: the output of generateSkillsIndex starts with the segment
\* '[Skills Index]' and ends with 'Regen: <cmd>'; between them come the
\* plugin segments, then the skills-sh segments, then 'user:{...}', then
\* 'project:{...}', the last two only for a group that is not empty; an
\* empty list yields '[Skills Index]|Regen: <cmd>'
C16_IndexShape ==
  step = "skillsIndex" =>
    LET n == Len(IndexSegments)
    IN  /\ n >= 2
        /\ IndexSegments[1] = SKILLS_INDEX_HEADER
        /\ IndexSegments[n] = REGEN_LABEL \o RegenCommand
        /\ \A i \in 2..(n - 1) : SegmentRank(IndexSegments[i]) \in 1..4
        /\ \A i, j \in 2..(n - 1) :
             i < j =>
               /\ SegmentRank(IndexSegments[i]) <= SegmentRank(IndexSegments[j])
               /\ SegmentRank(IndexSegments[i]) = SegmentRank(IndexSegments[j])
                    => SegmentRank(IndexSegments[i]) \in {1, 2}
        /\ (\E i \in 2..(n - 1) : SegmentRank(IndexSegments[i]) = 3)
             => bySource(skills, "user") # <<>>
        /\ (\E i \in 2..(n - 1) : SegmentRank(IndexSegments[i]) = 4)
             => bySource(skills, "project") # <<>>
        /\ skills = <<>> =>
             skillsIndex = SKILLS_INDEX_HEADER \o <<"|">>
                             \o REGEN_LABEL \o RegenCommand

\* an index with a plugin, a skills-sh and a user segment, in this order, of
\* entries given in another order, and a supplied command
C16_Witness ==
  /\ step = "skillsIndex"
  /\ skillsOpts.regenerateCommand # NotGiven
  /\ Len(skills) = 3
  /\ skills[1].source = "user"
  /\ skills[2].source = "skills-sh"
  /\ Len(GroupSegments) = 3
  /\ [i \in 1..3 |-> SegmentRank(GroupSegments[i])] = <<1, 2, 3>>

\* the groups of the entries: the source, with the pluginName for the
\* sources "plugin" and "skills-sh"
GroupOf(skill) ==
  IF skill.source \in {"plugin", "skills-sh"}
  THEN <<skill.source, skill.pluginName>>
  ELSE <<skill.source>>

SkillGroups == { GroupOf(skills[i]) : i \in DOMAIN skills }

\* the segment that serializes the entries of a group in their input order
SegmentOf(group) ==
  LET members    == SelectSeq(skills, LAMBDA skill : GroupOf(skill) = group)
      serialized == join([i \in DOMAIN members |->
                            formatSkillEntry(members[i])], <<";">>)
  IN  sourceTag(group[1]) \o <<":">>
        \o (IF Len(group) = 2 THEN group[2] \o <<":">> ELSE <<>>)
        \o <<"{">> \o serialized \o <<"}">>

\* C17: every entry is serialized in exactly one group segment (plugin and
\* skills-sh entries in the one segment of their label, user entries in the
\* user segment, project entries in the project segment), in input order
\* inside the group; no entry is dropped or emitted twice
C17_GroupsPartition ==
  step = "skillsIndex" =>
    /\ \A group \in SkillGroups :
         Cardinality({ i \in DOMAIN GroupSegments :
                         GroupSegments[i] = SegmentOf(group) }) = 1
    /\ Len(GroupSegments) = Cardinality(SkillGroups)

\* the delimiters of the index
Delimiters == {"|", ";", ":", "{", "}", "[", "]"}

RECURSIVE Substituted(_)
\* d with a backslash put before each of its delimiters
Substituted(d) ==
  IF d = <<>> THEN <<>>
  ELSE (IF Head(d) \in Delimiters THEN <<"\\", Head(d)>> ELSE <<Head(d)>>)
         \o Substituted(Tail(d))

\* the index holds one user entry without sibling files
OneUserEntry ==
  /\ step = "skillsIndex"
  /\ Len(skills) = 1
  /\ skills[1].source = "user"
  /\ skills[1].siblingFiles = <<>>

\* the escaped description the index holds for that entry
EscapedDescription ==
  LET before == SKILLS_INDEX_HEADER \o <<"|">> \o sourceTag("user")
                  \o <<":", "{">> \o skills[1].name \o <<":">>
      after  == <<"}", "|">> \o REGEN_LABEL \o RegenCommand
  IN  SubSeq(skillsIndex, Len(before) + 1, Len(skillsIndex) - Len(after))

\* C18: in the escaped description formatSkillEntry writes, every '|', ';',
\* ':', '{', '}', '[' and ']' follows a backslash, and nothing else of the
\* description is changed, backslashes of the description included
C18_DescriptionEscaped ==
  OneUserEntry =>
    /\ \A i \in DOMAIN EscapedDescription :
         EscapedDescription[i] \in Delimiters
           => i > 1 /\ EscapedDescription[i - 1] = "\\"
    /\ EscapedDescription = Substituted(skills[1].description)

\* the description is a backslash followed by a delimiter
C18_Witness ==
  /\ OneUserEntry
  /\ Len(skills[1].description) = 2
  /\ skills[1].description[1] = "\\"
  /\ skills[1].description[2] \in Delimiters
  /\ Len(EscapedDescription) = 3


(***************************************************************************)
(* parseSkillFrontmatter of src/lib/skills.ts.  A match of a regular       *)
(* expression is <<>> when there is none and <<captured>> otherwise; the   *)
(* value of parseSkillFrontmatter is <<>> for null and <<[name,            *)
(* description]>> for an object.                                           *)
(***************************************************************************)
\* lines in the metadata block of a SKILL.md
MaxLines == 2

Null == <<>>

\* the first position at or after from that holds no character of chars
runEnd(s, from, chars) ==
  LET stops == { i \in from..(Len(s) - 1) : s[i + 1] \notin chars }
  IN  IF stops = {} THEN Len(s) ELSE Least(stops)

\* md.match(/^---\s*\n([\s\S]*?)\n---/), md the parameter `content`: \s*
\* takes the longest run of whitespace that leaves a newline for \n and a later '\n---'; the group is
\* the shortest text up to a '\n---'
frontmatterMatch(md) ==
  LET close     == <<"\n", "-", "-", "-">>
      spaceEnd  == runEnd(md, 3, WhiteSpace)
      starts    == { p \in 4..spaceEnd :
                       /\ md[p] = "\n"
                       /\ indexOfFrom(md, close, p) # -1 }
      start     == CHOOSE p \in starts : \A q \in starts : q <= p
  IN  IF ~matchAt(md, <<"-", "-", "-">>, 0) \/ starts = {} THEN <<>>
      ELSE <<slice(md, start, indexOfFrom(md, close, start))>>

\* the characters `.` does not match and `^`, `$` take as line ends under /m
LineTerminators == {"\n", "\r"}

\* text.match(/^key:\s*(.+)$/m): at the first line start that holds `key:`
\* and allows a match, \s* takes the longest run of whitespace, line
\* terminators included, that leaves a character for `.+`, and the group
\* runs from there to the end of that line
keyMatch(text, key) ==
  LET label    == key \o <<":">>
      at(i)    == /\ matchAt(text, label, i)
                  /\ (i = 0 \/ text[i] \in LineTerminators)
      spaceEnd(i) == runEnd(text, i + Len(label), WhiteSpace)
      given(i) == { k \in (i + Len(label))..(spaceEnd(i) - 1) :
                      text[k + 1] \notin LineTerminators }
      from(i)  == IF spaceEnd(i) < Len(text) THEN spaceEnd(i)
                  ELSE CHOOSE k \in given(i) : \A j \in given(i) : j <= k
      found    == { i \in 0..(Len(text) - 1) :
                      at(i) /\ (spaceEnd(i) < Len(text) \/ given(i) # {}) }
  IN  IF found = {} THEN <<>>
      ELSE LET i       == Least(found)
               lineEnd == { e \in from(i)..(Len(text) - 1) :
                              text[e + 1] \in LineTerminators }
           IN  <<slice(text, from(i),
                       IF lineEnd = {} THEN Len(text) ELSE Least(lineEnd))>>

\* the keys of the two regular expressions
NAME_KEY ==
  <<"n","a","m","e">>

DESCRIPTION_KEY ==
  <<"d","e","s","c","r","i","p","t","i","o","n">>

\* s.trim().replace(/^["']|["']$/g, '')
fieldValue(s) ==
  LET trimmed  == trimEnd(sliceFrom(s, runEnd(s, 0, WhiteSpace)))
      quotes   == {"\"", "'"}
      unopened == IF trimmed # <<>> /\ trimmed[1] \in quotes
                  THEN Tail(trimmed) ELSE trimmed
  IN  IF unopened # <<>> /\ unopened[Len(unopened)] \in quotes
      THEN SubSeq(unopened, 1, Len(unopened) - 1) ELSE unopened

parseSkillFrontmatter(md) ==
  LET match       == frontmatterMatch(md)
      nameMatch   == keyMatch(match[1], NAME_KEY)
      descMatch   == keyMatch(match[1], DESCRIPTION_KEY)
      name        == IF nameMatch # <<>> THEN fieldValue(nameMatch[1])
                     ELSE <<>>
      description == IF descMatch # <<>> THEN fieldValue(descMatch[1])
                     ELSE <<>>
  IN  IF match = <<>> THEN Null
      ELSE IF name = <<>> \/ description = <<>> THEN Null
      ELSE <<[name |-> name, description |-> description]>>

(***************************************************************************)
(* The calls of parseSkillFrontmatter.                                     *)
(***************************************************************************)
\* lines of a metadata block
FrontmatterLines ==
  { <<"n","a","m","e",":"," ","n">>,
    <<"n","a","m","e",":">>,
    <<"n","a","m","e",":"," ">>,
    <<"n","a","m","e",":"," ","\"","n","\"">>,
    <<"d","e","s","c","r","i","p","t","i","o","n",":"," ","x">>,
    <<"d","e","s","c","r","i","p","t","i","o","n",":">>,
    <<"d","e","s","c","r","i","p","t","i","o","n",":"," ","'","x"," ","y","'">>,
    <<"o","t","h","e","r",":"," ","y">> }

\* contents whose metadata block is absent, empty, not closed, not leading,
\* or closed twice
OtherSkillMds ==
  { <<"#"," ","t","\n">>,
    <<"-","-","-","\n","-","-","-","\n">>,
    <<"-","-","-","\n","\n","-","-","-","\n">>,
    <<"-","-","-"," ","\n","\n","n","a","m","e",":"," ","n","\n","d","e","s","c","r","i","p","t","i","o","n",":"," ","x","\n","-","-","-","\n">>,
    <<"a","\n","-","-","-","\n","n","a","m","e",":"," ","n","\n","d","e","s","c","r","i","p","t","i","o","n",":"," ","x","\n","-","-","-","\n">>,
    <<"-","-","-","\n","n","a","m","e",":"," ","n","\n","d","e","s","c","r","i","p","t","i","o","n",":"," ","x","\n">>,
    <<"-","-","-","\n","n","a","m","e",":"," ","n","\n","\n","d","e","s","c","r","i","p","t","i","o","n",":"," ","x"," ","\n","-","-","-","\n","t","\n","-","-","-","\n">> }

\* '---\n' + lines + '\n---\n' + text for up to MaxLines lines, and the others
SkillMds ==
  { <<"-", "-", "-", "\n">> \o join(ls, <<"\n">>)
      \o <<"\n", "-", "-", "-", "\n", "#", "\n">> :
      ls \in UNION { [1..n -> FrontmatterLines] : n \in 1..MaxLines } }
    \cup OtherSkillMds

InitFrontmatter ==
  /\ step = "content"
  /\ skillMd \in SkillMds
  /\ frontmatter = <<>>
  /\ HostUnused
  /\ SystemUnused
  /\ DocsUnused
  /\ SkillsUnused
  /\ RepoUnused

\* frontmatter := parseSkillFrontmatter(skillMd)
ParseFrontmatter ==
  /\ step = "content"
  /\ frontmatter' = parseSkillFrontmatter(skillMd)
  /\ step' = "parsed"
  /\ UNCHANGED skillMd
  /\ UNCHANGED <<hostVars, docVars, skillsVars, repoVars, systemVars>>

NextFrontmatter == ParseFrontmatter

SpecFrontmatter == InitFrontmatter /\ [][NextFrontmatter]_vars

(***************************************************************************)
(* C19: the metadata a SKILL.md yields.                                    *)
(***************************************************************************)
\* the lines of the metadata block, none when there is no block
BlockLines ==
  IF frontmatterMatch(skillMd) = <<>> THEN <<>>
  ELSE split(frontmatterMatch(skillMd)[1], "\n")

\* the values of the lines of the block that start with `key:`, first line
\* first
ValuesOf(key) ==
  LET label == key \o <<":">>
      ofKey == SelectSeq(BlockLines, LAMBDA l : matchAt(l, label, 0))
  IN  [i \in DOMAIN ofKey |-> fieldValue(sliceFrom(ofKey[i], Len(label)))]

\* the block holds a line of the key, and the first one has a value
HasValue(key) == ValuesOf(key) # <<>> /\ ValuesOf(key)[1] # <<>>

\* C19: parseSkillFrontmatter returns null when the metadata block is
\* absent or empty, lacks a 'name:' or a 'description:' line, or has one of
\* them with an empty value after trimming; it never returns an object whose
\* name or description is empty or taken from the line of another key
C19_NullUnlessBothValues ==
  step = "parsed" =>
    /\ ~(HasValue(NAME_KEY) /\ HasValue(DESCRIPTION_KEY))
         => frontmatter = Null
    /\ frontmatter # Null =>
         /\ frontmatter[1].name # <<>>
         /\ frontmatter[1].description # <<>>
         /\ \E i \in DOMAIN ValuesOf(NAME_KEY) :
              frontmatter[1].name = ValuesOf(NAME_KEY)[i]
         /\ \E i \in DOMAIN ValuesOf(DESCRIPTION_KEY) :
              frontmatter[1].description = ValuesOf(DESCRIPTION_KEY)[i]


(***************************************************************************)
(* Discovery of the skills of a cloned repository: discoverFlatSkills and  *)
(* discoverSkillsShRepo of src/lib/skills.ts, on the part of the file      *)
(* system they read.  A file is a record [exists, readable, content,       *)
(* siblings], siblings being what getSiblingFiles answers for it; a        *)
(* directory entry is [name, isDirectory, skillMd]; a search directory is  *)
(* [exists, listable, entries], readdirSync throwing when it is not        *)
(* listable.  Paths are relative to repoDir.  A call yields [threw,        *)
(* skills], threw telling that an exception left it.                       *)
(***************************************************************************)
\* search directories of a repository that exist
MaxPopulated == 2

\* the searchDirs of discoverSkillsShRepo
SEARCH_DIRS ==
  << <<"s","k","i","l","l","s">>,
     <<".","c","l","a","u","d","e","/","s","k","i","l","l","s">>,
     <<".","a","g","e","n","t","s","/","s","k","i","l","l","s">>,
     <<"s","k","i","l","l","s","/",".","c","u","r","a","t","e","d">>,
     <<"s","k","i","l","l","s","/",".","e","x","p","e","r","i","m","e","n","t","a","l">> >>

\* 'SKILL.md'
SKILL_MD ==
  <<"S","K","I","L","L",".","m","d">>

\* the entries pushed for one SKILL.md: none when it does not exist, cannot
\* be read or has no valid frontmatter
skillEntries(file, skillMdPath, source, pluginName) ==
  LET frontmatterOf == parseSkillFrontmatter(file.content)
  IN  IF ~file.exists \/ ~file.readable \/ frontmatterOf = Null THEN <<>>
      ELSE << [ name         |-> frontmatterOf[1].name,
                description  |-> frontmatterOf[1].description,
                skillMdPath  |-> skillMdPath,
                siblingFiles |-> file.siblings,
                source       |-> source,
                pluginName   |-> pluginName ] >>

RECURSIVE collectSkills(_, _, _)
\* the loop of discoverFlatSkills over skillDirs, with the filter of
\* d.isDirectory()
collectSkills(skillDirs, skillsPath, source) ==
  IF skillDirs = <<>> THEN <<>>
  ELSE (IF Head(skillDirs).isDirectory
        THEN skillEntries(Head(skillDirs).skillMd,
                          skillsPath \o <<"/">> \o Head(skillDirs).name
                            \o <<"/">> \o SKILL_MD,
                          source, NotGiven)
        ELSE <<>>)
       \o collectSkills(Tail(skillDirs), skillsPath, source)

\* discoverFlatSkills(skillsPath, source, label), directory being the state
\* of skillsPath
discoverFlatSkills(directory, skillsPath, source) ==
  IF ~directory.exists THEN [threw |-> FALSE, skills |-> <<>>]
  ELSE IF ~directory.listable THEN [threw |-> TRUE, skills |-> <<>>]
  ELSE [threw  |-> FALSE,
        skills |-> collectSkills(directory.entries, skillsPath, source)]

RECURSIVE addUnseen_all(_, _, _)
\* the loop over discovered without the test of seen
addUnseen_all(skillList, found, repoName) ==
  IF found = <<>> THEN skillList
  ELSE addUnseen_all(Append(skillList,
                            [Head(found) EXCEPT !.pluginName = repoName]),
                     Tail(found), repoName)

RECURSIVE addUnseen(_, _, _)
\* the loop of discoverSkillsShRepo over discovered; seen holds the names of
\* the skills pushed so far
addUnseen(skillList, found, repoName) ==
  IF found = <<>> THEN skillList
  ELSE IF \E i \in 1..Len(skillList) : skillList[i].name = Head(found).name
  THEN addUnseen(skillList, Tail(found), repoName)
  ELSE addUnseen(Append(skillList,
                        [Head(found) EXCEPT !.pluginName = repoName]),
                 Tail(found), repoName)

RECURSIVE searchFrom(_, _, _, _)
\* the loop of discoverSkillsShRepo over searchDirs from its i-th directory
\* on, skillList being the skills pushed before
searchFrom(repoTree, repoName, i, skillList) ==
  IF i > Len(SEARCH_DIRS) THEN [threw |-> FALSE, skills |-> skillList]
  ELSE LET found == discoverFlatSkills(repoTree.dirs[i], SEARCH_DIRS[i],
                                       "skills-sh")
       IN  IF ~repoTree.dirs[i].exists
           THEN searchFrom(repoTree, repoName, i + 1, skillList)
           ELSE IF found.threw THEN [threw |-> TRUE, skills |-> <<>>]
           ELSE searchFrom(repoTree, repoName, i + 1,
                           addUnseen(skillList, found.skills, repoName))

\* discoverSkillsShRepo(repoDir, repoName), repoTree being the state of
\* repoDir
discoverSkillsShRepo(repoTree, repoName) ==
  searchFrom(repoTree, repoName, 1,
             skillEntries(repoTree.rootSkillMd, SKILL_MD, "skills-sh",
                          repoName))

(***************************************************************************)
(* The repositories discoverSkillsShRepo is called on.                     *)
(***************************************************************************)
NoFile == [exists |-> FALSE, readable |-> FALSE, content |-> <<>>,
           siblings |-> <<>>]

\* a SKILL.md with the frontmatter of a skill
SkillMd(name, description) ==
  [ exists   |-> TRUE,
    readable |-> TRUE,
    content  |-> <<"-", "-", "-", "\n">> \o NAME_KEY \o <<":", " ">> \o name
                   \o <<"\n">> \o DESCRIPTION_KEY \o <<":", " ">>
                   \o description \o <<"\n", "-", "-", "-", "\n">>,
    siblings |-> <<<<"f">>>> ]

\* a SKILL.md that cannot be read, and one without frontmatter
UnreadableMd == [NoFile EXCEPT !.exists = TRUE]

PlainMd == [SkillMd(<<"a">>, <<"x">>) EXCEPT !.content = <<"#", "\n">>]

Dirent(name, isDirectory, md) ==
  [name |-> name, isDirectory |-> isDirectory, skillMd |-> md]

Listing(entries) == [exists |-> TRUE, listable |-> TRUE, entries |-> entries]

NoDirectory == [exists |-> FALSE, listable |-> FALSE, entries |-> <<>>]

\* the states of a search directory: absent, not listable, or a listing of
\* skills named a and b (a told apart by its description) and of candidates
\* that are skipped
DirectoryStates ==
  { NoDirectory,
    [NoDirectory EXCEPT !.exists = TRUE],
    Listing(<<Dirent(<<"s">>, TRUE, SkillMd(<<"a">>, <<"x">>))>>),
    Listing(<<Dirent(<<"s">>, TRUE, SkillMd(<<"b">>, <<"x">>)),
              Dirent(<<"t">>, TRUE, SkillMd(<<"a">>, <<"y">>))>>),
    Listing(<<Dirent(<<"s">>, TRUE, SkillMd(<<"a">>, <<"y">>)),
              Dirent(<<"t">>, TRUE, SkillMd(<<"a">>, <<"x">>))>>),
    Listing(<<Dirent(<<"f">>, FALSE, NoFile),
              Dirent(<<"s">>, TRUE, NoFile),
              Dirent(<<"t">>, TRUE, UnreadableMd),
              Dirent(<<"u">>, TRUE, PlainMd),
              Dirent(<<"v">>, TRUE, SkillMd(<<"b">>, <<"y">>))>>) }

RootStates == { NoFile, UnreadableMd, PlainMd, SkillMd(<<"a">>, <<"z">>) }

\* 'skills' lists its subdirectories '.curated' and '.experimental' when
\* they exist
WithHidden(dirs) ==
  [dirs EXCEPT ![1].entries =
     @ \o (IF dirs[4].exists
           THEN <<Dirent(<<".", "c", "u", "r", "a", "t", "e", "d">>,
                         dirs[4].listable, NoFile)>>
           ELSE <<>>)
       \o (IF dirs[5].exists
           THEN <<Dirent(<<".", "e", "x", "p", "e", "r", "i", "m", "e", "n",
                           "t", "a", "l">>, dirs[5].listable, NoFile)>>
           ELSE <<>>)]

\* the repositories: at most MaxPopulated search directories exist, and
\* 'skills' is a directory when one of its subdirectories exists
Repositories ==
  { [ name        |-> <<"o", "/", "r">>,
      rootSkillMd |-> root,
      dirs        |-> WithHidden(dirs) ] :
      root \in RootStates,
      dirs \in { d \in [1..Len(SEARCH_DIRS) -> DirectoryStates] :
                   /\ Cardinality({ i \in DOMAIN d : d[i].exists })
                        <= MaxPopulated
                   /\ (d[4].exists \/ d[5].exists) => d[1].listable } }

InitRepo ==
  /\ step = "cloned"
  /\ repo \in Repositories
  /\ discovered = <<>>
  /\ HostUnused
  /\ SystemUnused
  /\ DocsUnused
  /\ SkillsUnused
  /\ FrontmatterUnused

\* discovered := discoverSkillsShRepo(repoDir, repoName)
DiscoverSkillsShRepo ==
  /\ step = "cloned"
  /\ discovered' = discoverSkillsShRepo(repo, repo.name)
  /\ step' = "discovered"
  /\ UNCHANGED repo
  /\ UNCHANGED <<hostVars, docVars, skillsVars, frontmatterVars, systemVars>>

NextRepo == DiscoverSkillsShRepo

SpecRepo == InitRepo /\ [][NextRepo]_vars

(***************************************************************************)
(* C20: the skills discoverSkillsShRepo returns.                           *)
(***************************************************************************)
\* the SKILL.md files of the repository that hold valid frontmatter, as
\* [name, path], in the order root, then the search directories in their
\* order, each in the order of its listing
ValidSkillMds ==
  LET valid(file, path) ==
        IF file.exists /\ file.readable
             /\ parseSkillFrontmatter(file.content) # Null
        THEN << [name |-> parseSkillFrontmatter(file.content)[1].name,
                 path |-> path] >>
        ELSE <<>>
      inDirectory(i) ==
        Flat([j \in DOMAIN repo.dirs[i].entries |->
          IF repo.dirs[i].entries[j].isDirectory
          THEN valid(repo.dirs[i].entries[j].skillMd,
                     SEARCH_DIRS[i] \o <<"/">> \o repo.dirs[i].entries[j].name
                       \o <<"/">> \o SKILL_MD)
          ELSE <<>>])
  IN  valid(repo.rootSkillMd, SKILL_MD)
        \o Flat([i \in DOMAIN repo.dirs |-> inDirectory(i)])

\* the path of the first of the files that has the name
FirstPath(valid, name) ==
  valid[Least({ i \in DOMAIN valid : valid[i].name = name })].path

\* the call returned
Returned == step = "discovered" /\ ~discovered.threw

\* C20: discoverSkillsShRepo returns entries with pairwise distinct names;
\* of a name found in several places the entry kept is the one of the
\* earliest place in the order root SKILL.md, skills, .claude/skills,
\* .agents/skills, skills/.curated, skills/.experimental; every entry has
\* source 'skills-sh' and pluginName equal to the repo label
C20_FirstOccurrenceWins ==
  Returned =>
    LET valid == ValidSkillMds
        kept  == discovered.skills
    IN  /\ \A i, j \in DOMAIN kept : i # j => kept[i].name # kept[j].name
        /\ { kept[i].name : i \in DOMAIN kept }
             = { valid[i].name : i \in DOMAIN valid }
        /\ \A i \in DOMAIN kept :
             /\ kept[i].skillMdPath = FirstPath(valid, kept[i].name)
             /\ kept[i].source = "skills-sh"
             /\ kept[i].pluginName = repo.name

\* a repository with the name a at its root and in two search directories,
\* twice in one of them, and another name
C20_Witness ==
  /\ Returned
  /\ Len(discovered.skills) = 2
  /\ Len(ValidSkillMds) >= 5
  /\ repo.rootSkillMd.readable
  /\ discovered.skills[1].skillMdPath = SKILL_MD


(***************************************************************************)
(* Discovery from several sources: discoverPluginSkills and                *)
(* collectAllSkills of src/lib/skills.ts.  A source is [type, path, label, *)
(* directory]: directory is the state of path for a flat source and the    *)
(* state of path/plugins for a plugin repository, whose entries are        *)
(* [name, isDirectory, skillsDir], skillsDir being the state of            *)
(* plugins/<name>/skills.                                                  *)
(***************************************************************************)
\* sources of a call of collectAllSkills
MaxSources == 2

\* the entries with their pluginName set
withPluginName(skillList, pluginName) ==
  [i \in DOMAIN skillList |-> [skillList[i] EXCEPT !.pluginName = pluginName]]

\* one plugin of the loop of discoverPluginSkills: the skills of its skills
\* directory, each with the plugin's name, ahead of those of the plugins
\* after it (rest)
pluginFound(plugin, pluginsDir, rest) ==
  LET skillsAt == pluginsDir \o <<"/">> \o plugin.name
                    \o <<"/", "s", "k", "i", "l", "l", "s">>
  IN  IF ~plugin.isDirectory \/ ~plugin.skillsDir.exists THEN rest
      ELSE IF ~plugin.skillsDir.listable \/ rest.threw
      THEN [threw |-> TRUE, skills |-> <<>>]
      ELSE [threw  |-> FALSE,
            skills |-> withPluginName(
                         collectSkills(plugin.skillsDir.entries,
                                       skillsAt, "plugin"),
                         plugin.name)
                       \o rest.skills]

RECURSIVE pluginSkills(_, _)
\* the loop of discoverPluginSkills over plugins, with the filter of
\* d.isDirectory()
pluginSkills(plugins, pluginsDir) ==
  IF plugins = <<>> THEN [threw |-> FALSE, skills |-> <<>>]
  ELSE pluginFound(Head(plugins), pluginsDir,
                   pluginSkills(Tail(plugins), pluginsDir))

\* discoverPluginSkills(pluginsPath, label), directory being the state of
\* pluginsPath/plugins
discoverPluginSkills(directory, pluginsPath) ==
  IF ~directory.exists THEN [threw |-> FALSE, skills |-> <<>>]
  ELSE IF ~directory.listable THEN [threw |-> TRUE, skills |-> <<>>]
  ELSE pluginSkills(directory.entries,
                    pluginsPath \o <<"/", "p", "l", "u", "g", "i", "n", "s">>)

\* '/plugins/cache/'
PLUGINS_CACHE ==
  <<"/", "p", "l", "u", "g", "i", "n", "s", "/", "c", "a", "c", "h", "e", "/">>

\* what collectAllSkills pushes for one source
sourceSkills(source) ==
  IF source.type = "plugin"
  THEN IF includes(source.path, PLUGINS_CACHE)
       THEN LET found == discoverFlatSkills(source.directory, source.path,
                                            "plugin")
            IN  [found EXCEPT !.skills = withPluginName(@, source.label)]
       ELSE discoverPluginSkills(source.directory, source.path)
  ELSE discoverFlatSkills(source.directory, source.path, source.type)

\* allSkills.push(...) of one source's skills ahead of those of the sources
\* after it (rest)
pushFound(found, rest) ==
  IF found.threw \/ rest.threw
  THEN [threw |-> TRUE, skills |-> <<>>]
  ELSE [threw |-> FALSE, skills |-> found.skills \o rest.skills]

RECURSIVE collectAllSkills(_)
\* collectAllSkills(sources)
collectAllSkills(sourceList) ==
  IF sourceList = <<>> THEN [threw |-> FALSE, skills |-> <<>>]
  ELSE pushFound(sourceSkills(Head(sourceList)),
                 collectAllSkills(Tail(sourceList)))

(***************************************************************************)
(* The sources collectAllSkills is called on.                              *)
(***************************************************************************)
Plugin(name, isDirectory, skillsDir) ==
  [name |-> name, isDirectory |-> isDirectory, skillsDir |-> skillsDir]

\* the states of the plugins directory of a plugin repository
PluginsStates ==
  LET unlistable == [NoDirectory EXCEPT !.exists = TRUE]
      skill(name) ==
        Listing(<<Dirent(<<"s">>, TRUE, SkillMd(name, <<"x">>))>>)
      skipped ==
        Listing(<<Dirent(<<"t">>, TRUE, UnreadableMd),
                  Dirent(<<"v">>, TRUE, SkillMd(<<"b">>, <<"y">>))>>)
  IN  { NoDirectory,
        unlistable,
        Listing(<<Plugin(<<"p">>, TRUE, skill(<<"a">>))>>),
        Listing(<<Plugin(<<"p">>, TRUE, skill(<<"a">>)),
                  Plugin(<<"q">>, TRUE, unlistable)>>),
        Listing(<<Plugin(<<"f">>, FALSE, NoDirectory),
                  Plugin(<<"p">>, TRUE, NoDirectory),
                  Plugin(<<"q">>, TRUE, skipped)>>) }

Source(type, path, label, directory) ==
  [type |-> type, path |-> path, label |-> label, directory |-> directory]

\* user and project skills, an enabled plugin of the plugin cache and a
\* plugin repository
SkillSources ==
  { Source(type, <<type>>, <<type>>, directory) :
      type \in {"user", "project"}, directory \in DirectoryStates }
  \cup { Source("plugin", <<"h">> \o PLUGINS_CACHE \o <<"e">>, <<"e">>,
                directory) : directory \in DirectoryStates }
  \cup { Source("plugin", <<"r">>, <<"r">>, directory) :
           directory \in PluginsStates }

SourceLists ==
  UNION { [1..n -> SkillSources] : n \in 1..MaxSources }

InitCollect ==
  /\ step = "sources"
  /\ sources \in SourceLists
  /\ collected = <<>>
  /\ HostUnused
  /\ PureUnused
  /\ EmbedUnused
  /\ ConfigUnused
  /\ GitignoreUnused
  /\ SelectUnused

\* collected := collectAllSkills(sources)
CollectAllSkills ==
  /\ step = "sources"
  /\ collected' = collectAllSkills(sources)
  /\ step' = "collected"
  /\ UNCHANGED sources
  /\ UNCHANGED <<hostVars, pureVars, embedVars, configVars, gitignoreVars,
                 selectVars>>

NextCollect == CollectAllSkills

SpecCollect == InitCollect /\ [][NextCollect]_vars

(***************************************************************************)
(* C21: failures of single candidates.                                     *)
(***************************************************************************)
\* the paths of the SKILL.md files with valid frontmatter below the
\* directories of a listing
ValidBelow(directory, path) ==
  IF ~directory.exists THEN {}
  ELSE { path \o <<"/">> \o directory.entries[j].name \o <<"/">> \o SKILL_MD :
           j \in { k \in DOMAIN directory.entries :
                     LET file == directory.entries[k].skillMd
                     IN  /\ directory.entries[k].isDirectory
                         /\ file.exists
                         /\ file.readable
                         /\ parseSkillFrontmatter(file.content) # Null } }

\* the same for a source, through plugins/<name>/skills for a plugin
\* repository
ValidOf(source) ==
  IF source.type = "plugin" /\ ~includes(source.path, PLUGINS_CACHE)
  THEN UNION { ValidBelow(source.directory.entries[j].skillsDir,
                          source.path
                            \o <<"/", "p", "l", "u", "g", "i", "n", "s", "/">>
                            \o source.directory.entries[j].name
                            \o <<"/", "s", "k", "i", "l", "l", "s">>) :
                 j \in { k \in DOMAIN source.directory.entries :
                           source.directory.entries[k].isDirectory } }
  ELSE ValidBelow(source.directory, source.path)

\* some candidate of the sources fails: a directory or a skills path that
\* exists and cannot be listed, or a SKILL.md that exists and cannot be read
CandidateFails ==
  \E i \in DOMAIN sources :
    LET failing(directory) ==
          /\ directory.exists
          /\ \/ ~directory.listable
             \/ \E j \in DOMAIN directory.entries :
                  /\ directory.entries[j].skillMd.exists
                  /\ ~directory.entries[j].skillMd.readable
    IN  IF sources[i].type = "plugin"
             /\ ~includes(sources[i].path, PLUGINS_CACHE)
        THEN \/ sources[i].directory.exists /\ ~sources[i].directory.listable
             \/ \E j \in DOMAIN sources[i].directory.entries :
                  failing(sources[i].directory.entries[j].skillsDir)
        ELSE failing(sources[i].directory)

\* C21: whatever candidate fails, collectAllSkills (with discoverFlatSkills
\* and discoverPluginSkills under it) returns normally and returns every
\* valid skill of the sources
C21_PartialResults ==
  (step = "collected" /\ CandidateFails) =>
    /\ ~collected.threw
    /\ \A i \in DOMAIN sources :
         \A path \in ValidOf(sources[i]) :
           \E j \in DOMAIN collected.skills :
             collected.skills[j].skillMdPath = path


(***************************************************************************)
(* ensureGitignoreEntry of src/lib/agents-md.ts.  A file of the disk is    *)
(* [exists, readable, writable, content]: reading a file that exists and   *)
(* is not readable throws, and so does writing a file that is not          *)
(* writable.  A call yields [threw, file, status].                         *)
(***************************************************************************)
DiskFile(exists, readable, writable, text) ==
  [exists |-> exists, readable |-> readable, writable |-> writable,
   content |-> text]

\* content.split(/\r?\n/)
splitLines(text) ==
  LET pieces == split(text, "\n")
  IN  [i \in DOMAIN pieces |->
         IF i < Len(pieces) /\ pieces[i] # <<>>
              /\ pieces[i][Len(pieces[i])] = "\r"
         THEN slice(pieces[i], 0, -1)
         ELSE pieces[i]]

\* entryRegex.test(line) with the dot of docsDir left unescaped
entryRegexTest_unescaped(line, docsDir) ==
  \E k \in 0..runEnd(line, 0, WhiteSpace) :
    /\ k + Len(docsDir) <= Len(line)
    /\ \A i \in 1..Len(docsDir) :
         IF docsDir[i] = "." THEN line[k + i] \notin LineTerminators
         ELSE line[k + i] = docsDir[i]
    /\ LET rest == sliceFrom(line, k + Len(docsDir))
       IN  \/ rest = <<>>
           \/ /\ rest[1] = "/"
              /\ \A i \in 2..Len(rest) : rest[i] \notin LineTerminators

\* entryRegex.test(line), entryRegex being ^\s*<docsDir>(?:/.*)?$ with the
\* special characters of docsDir escaped: after a run of whitespace the line
\* holds docsDir literally and then nothing, or '/' and characters that are
\* not line terminators
entryRegexTest(line, docsDir) ==
  \E k \in 0..runEnd(line, 0, WhiteSpace) :
    /\ matchAt(line, docsDir, k)
    /\ LET rest == sliceFrom(line, k + Len(docsDir))
       IN  \/ rest = <<>>
           \/ /\ rest[1] = "/"
              /\ \A i \in 2..Len(rest) : rest[i] \notin LineTerminators

AGDEX_HEADER ==
  <<"#", " ", "a", "g", "d", "e", "x">>

\* ensureGitignoreEntry(cwd, docsDir), file being the state of cwd/.gitignore
ensureGitignoreEntry(file, docsDir) ==
  LET entry        == IF docsDir # <<>> /\ docsDir[Len(docsDir)] = "/"
                      THEN docsDir ELSE docsDir \o <<"/">>
      text         == IF file.exists THEN file.content ELSE <<>>
      lines        == splitLines(text)
      hasEntry     == \E i \in DOMAIN lines : entryRegexTest(lines[i], docsDir)
      needsNewline == Len(text) > 0 /\ ~endsWithNewline(text)
      header       == IF includes(text, AGDEX_HEADER) THEN <<>>
                      ELSE AGDEX_HEADER \o <<"\n">>
      newContent   == text \o (IF needsNewline THEN <<"\n">> ELSE <<>>)
                        \o header \o entry \o <<"\n">>
  IN  IF file.exists /\ ~file.readable
      THEN [threw |-> TRUE, file |-> file, status |-> <<>>]
      ELSE IF hasEntry
      THEN [threw  |-> FALSE, file |-> file,
            status |-> [updated |-> FALSE, alreadyPresent |-> TRUE]]
      ELSE IF ~file.writable
      THEN [threw |-> TRUE, file |-> file, status |-> <<>>]
      ELSE [threw  |-> FALSE,
            file   |-> [file EXCEPT !.exists = TRUE, !.readable = TRUE,
                                    !.content = newContent],
            status |-> [updated |-> TRUE, alreadyPresent |-> FALSE]]


(***************************************************************************)
(* embed of src/lib/agents-md.ts and embedSkills of src/lib/skills.ts, as  *)
(* calls that may overlap on one disk [host, gitignore].  A call is a      *)
(* record of its options, of what its collaborators answer (detected,      *)
(* cloneOk, listOk, docFiles; the directories of its sources) and of its   *)
(* locals: pc is "new" before the call, "pulling" while embed waits at     *)
(* `await pullDocs`, "done" when the promise is settled; result is         *)
(* [settled |-> "resolved", value |-> ...] or [settled |-> "rejected"].    *)
(* The code from the call to the first await and the code after the await  *)
(* each run without interruption.  hostWrites and ignoreWrites count the   *)
(* writeFileSync calls made, before is the disk at the call.               *)
(***************************************************************************)
\* calls made on one disk
MaxCalls == 2

AGDEX_DIR ==
  <<".", "a", "g", "d", "e", "x">>

GLOBAL_CACHE_DIR ==
  <<"/", "h", "/", ".", "c", "a", "c", "h", "e", "/", "a", "g", "d", "e",
  "x">>

NPX_PROVIDER ==
  <<"n", "p", "x", " ", "a", "g", "d", "e", "x", " ", "-", "-", "p", "r",
  "o", "v", "i", "d", "e", "r", " ">>

OUTPUT_FLAG ==
  <<" ", "-", "-", "o", "u", "t", "p", "u", "t", " ">>

GLOBAL_FLAG ==
  <<" ", "-", "-", "g", "l", "o", "b", "a", "l">>

NPX_SKILLS_EMBED ==
  <<"n", "p", "x", " ", "a", "g", "d", "e", "x", " ", "s", "k", "i", "l",
  "l", "s", " ", "e", "m", "b", "e", "d">>

\* path.isAbsolute(p)
isAbsolute(p) == p # <<>> /\ p[1] = "/"

\* docsDir and docsLinkPath of embed
docsDirs(c) ==
  IF c.customDocsDir # NotGiven
  THEN [docsDir      |-> c.customDocsDir,
        docsLinkPath |-> IF isAbsolute(c.customDocsDir) THEN c.customDocsDir
                         ELSE <<".", "/">> \o c.customDocsDir]
  ELSE IF c.globalCache
  THEN [docsDir      |-> GLOBAL_CACHE_DIR \o <<"/">> \o c.provider.name,
        docsLinkPath |-> GLOBAL_CACHE_DIR \o <<"/">> \o c.provider.name]
  ELSE [docsDir      |-> AGDEX_DIR \o <<"/">> \o c.provider.name,
        docsLinkPath |-> <<".", "/">> \o AGDEX_DIR \o <<"/">>
                           \o c.provider.name]

\* pullDocs(provider, {cwd, version, docsDir}): the PullResult
pullDocs(c) ==
  IF c.version = NotGiven /\ c.provider.canDetect /\ ~c.detected
  THEN [success |-> FALSE, error |-> "Could not detect version"]
  ELSE IF c.version = NotGiven /\ ~c.provider.canDetect
  THEN [success |-> FALSE, error |-> "No version provided"]
  ELSE IF ~c.cloneOk
  THEN [success |-> FALSE, error |-> "clone failed"]
  ELSE [success |-> TRUE, error |-> ""]

Rejected(d, c) ==
  [disk |-> d, call |-> [c EXCEPT !.pc = "done",
                                  !.result = [settled |-> "rejected"]]]

Resolved(d, c, value) ==
  [disk |-> d,
   call |-> [c EXCEPT !.pc = "done",
                      !.result = [settled |-> "resolved", value |-> value]]]

\* what embed and embedSkills do first: read the host file when it exists
readHost(d, c) ==
  [c EXCEPT !.before = d,
            !.existingContent = IF d.host.exists THEN d.host.content
                                ELSE <<>>,
            !.isNewFile = ~d.host.exists]

\* embed from its call to `await pullDocs(...)`
startEmbed(d, c) ==
  IF d.host.exists /\ ~d.host.readable THEN Rejected(d, [c EXCEPT !.before = d])
  ELSE [disk |-> d,
        call |-> [readHost(d, c) EXCEPT !.pc = "pulling",
                                        !.pullResult = pullDocs(c)]]

\* the index embed generates from the documents pulled
embedIndex(c) ==
  generateIndex(
    [ docsPath          |-> docsDirs(c).docsLinkPath,
      providerName      |-> c.provider.displayName,
      instruction       |-> c.provider.instruction,
      description       |-> c.description,
      outputFile        |-> c.output,
      regenerateCommand |-> NPX_PROVIDER \o c.provider.name \o OUTPUT_FLAG
                              \o c.output
                              \o (IF c.globalCache THEN GLOBAL_FLAG
                                  ELSE <<>>) ],
    buildDocTree(c.docFiles))

\* the update of .gitignore at the end of embed
embedGitignore(d, c) ==
  IF ~c.globalCache /\ c.customDocsDir = NotGiven
  THEN ensureGitignoreEntry(d.gitignore, AGDEX_DIR)
  ELSE IF ~c.globalCache /\ ~isAbsolute(c.customDocsDir)
  THEN ensureGitignoreEntry(d.gitignore, c.customDocsDir)
  ELSE [threw |-> FALSE, file |-> d.gitignore,
        status |-> [updated |-> FALSE, alreadyPresent |-> FALSE]]

\* embed after `await pullDocs(...)`, newContent being the content it
\* computed for the host file
finishWith(d, c, newContent) ==
  LET written == [d EXCEPT !.host.exists = TRUE, !.host.readable = TRUE,
                           !.host.content = newContent]
      ignored == embedGitignore(written, c)
      after   == [c EXCEPT !.hostWrites = @ + 1,
                           !.ignoreWrites = IF ignored.status.updated
                                            THEN @ + 1 ELSE @]
  IN  IF ~c.pullResult.success
      THEN Resolved(d, c, [success |-> FALSE, error |-> c.pullResult.error])
      ELSE IF ~c.listOk \/ ~d.host.writable THEN Rejected(d, c)
      ELSE IF ignored.threw
      THEN Rejected(written, [c EXCEPT !.hostWrites = @ + 1])
      ELSE Resolved([written EXCEPT !.gitignore = ignored.file], after,
                    [success          |-> TRUE,
                     isNewFile        |-> c.isNewFile,
                     gitignoreUpdated |-> ignored.status.updated])

\* embed that injects into an empty content instead of the content read
finishEmbed_dropsExisting(d, c) ==
  finishWith(d, c, injectIndex(<<>>, embedIndex(c), c.provider.name))

\* embed that writes the host file before it looks at the pull result
finishEmbed_writesFirst(d, c) ==
  LET newContent == injectIndex(c.existingContent, <<>>, c.provider.name)
      written    == [d EXCEPT !.host.exists = TRUE, !.host.readable = TRUE,
                              !.host.content = newContent]
  IN  IF ~d.host.writable THEN Rejected(d, c)
      ELSE IF ~c.pullResult.success
      THEN Resolved(written, [c EXCEPT !.hostWrites = @ + 1],
                    [success |-> FALSE, error |-> c.pullResult.error])
      ELSE finishWith(written, [c EXCEPT !.hostWrites = @ + 1],
                      injectIndex(c.existingContent, embedIndex(c),
                                  c.provider.name))

\* embed after `await pullDocs(...)`
finishEmbed(d, c) ==
  finishWith(d, c, injectIndex(c.existingContent, embedIndex(c),
                               c.provider.name))

\* embedSkills after its reads: local holds existingContent and isNewFile,
\* found is what collectAllSkills(sources) came to
embedFound(d, local, found) ==
  LET newContent == injectSkillsIndex(
                      local.existingContent,
                      generateSkillsIndex(
                        found.skills,
                        [regenerateCommand |-> NPX_SKILLS_EMBED]))
      written    == [d EXCEPT !.host.exists = TRUE, !.host.readable = TRUE,
                              !.host.content = newContent]
  IN  IF d.host.exists /\ ~d.host.readable THEN Rejected(d, local)
      ELSE IF found.threw THEN Rejected(d, local)
      ELSE IF found.skills = <<>>
      THEN Resolved(d, local, [success |-> FALSE,
                               error   |-> "No skills found"])
      ELSE IF ~d.host.writable THEN Rejected(d, local)
      ELSE Resolved(written, [local EXCEPT !.hostWrites = @ + 1],
                    [success    |-> TRUE,
                     isNewFile  |-> local.isNewFile,
                     skillCount |-> Len(found.skills)])

\* embedSkills(options): it holds no await
embedSkills(d, c) ==
  embedFound(d, readHost(d, c), collectAllSkills(c.sourceList))


(***************************************************************************)
(* The calls of embed and embedSkills and the disks they run on.           *)
(***************************************************************************)
Provider(name, displayName, canDetect) ==
  [name |-> name, displayName |-> displayName, instruction |-> <<"I">>,
   canDetect |-> canDetect]

\* the options of a call and the answers of its collaborators, with the
\* locals of a call not yet made
NewCall(kind, provider, version, customDocsDir, globalCache, answers, sourceList) ==
  [ kind            |-> kind,
    provider        |-> provider,
    version         |-> version,
    customDocsDir   |-> customDocsDir,
    globalCache     |-> globalCache,
    description     |-> NotGiven,
    output          |-> AGENTS_MD,
    detected        |-> answers[1],
    cloneOk         |-> answers[2],
    listOk          |-> answers[3],
    docFiles        |-> <<<<"a", "/", "x">>, <<"a", "/", "y">>>>,
    sourceList      |-> sourceList,
    pc              |-> "new",
    before          |-> <<>>,
    existingContent |-> <<>>,
    isNewFile       |-> TRUE,
    pullResult      |-> <<>>,
    result          |-> <<>>,
    hostWrites      |-> 0,
    ignoreWrites    |-> 0 ]

\* embed of two providers into the local cache, the global cache and a
\* custom directory, with each failure of pullDocs and of collectDocFiles;
\* embedSkills with and without a skill
EmbedCalls ==
  LET nextjsProvider == Provider(nextjs, <<"N">>, TRUE)
      custom         == Provider(deltars, <<"D">>, FALSE)
      ok             == <<TRUE, TRUE, TRUE>>
      user(directory) ==
        <<Source("user", <<"u">>, <<"user">>, directory)>>
  IN  { NewCall("embed", nextjsProvider, NotGiven, NotGiven, FALSE, ok, <<>>),
        NewCall("embed", custom, <<"1">>, NotGiven, TRUE, ok, <<>>),
        NewCall("embed", custom, <<"1">>, <<"d">>, FALSE, ok, <<>>),
        NewCall("embed", nextjsProvider, NotGiven, <<"d">>, FALSE,
                <<FALSE, TRUE, TRUE>>, <<>>),
        NewCall("embed", custom, NotGiven, NotGiven, FALSE, ok, <<>>),
        NewCall("embed", nextjsProvider, <<"1">>, NotGiven, FALSE,
                <<TRUE, FALSE, TRUE>>, <<>>),
        NewCall("embed", custom, <<"1">>, NotGiven, TRUE,
                <<TRUE, TRUE, FALSE>>, <<>>),
        NewCall("embedSkills", <<>>, NotGiven, NotGiven, FALSE, ok,
                user(Listing(<<Dirent(<<"s">>, TRUE,
                                      SkillMd(<<"a">>, <<"x">>))>>))),
        NewCall("embedSkills", <<>>, NotGiven, NotGiven, FALSE, ok,
                user(NoDirectory)) }

Disk(host, ignoreFile) == [host |-> host, gitignore |-> ignoreFile]

\* host files and .gitignore files that are absent, present, unreadable
\* and read-only
Disks ==
  LET absent     == DiskFile(FALSE, FALSE, TRUE, <<>>)
      text       == DiskFile(TRUE, TRUE, TRUE, <<"t", "\n">>)
      unreadable == DiskFile(TRUE, FALSE, TRUE, <<"t", "\n">>)
      readOnly   == DiskFile(TRUE, TRUE, FALSE, <<"t">>)
  IN  { Disk(absent, absent),
        Disk(text, text),
        Disk(unreadable, absent),
        Disk(readOnly, DiskFile(TRUE, TRUE, TRUE, AGDEX_DIR \o <<"/", "\n">>)),
        Disk(text, unreadable),
        Disk(text, readOnly) }

InitEmbed ==
  /\ step = "embed"
  /\ disk \in Disks
  /\ calls \in UNION { [1..n -> EmbedCalls] : n \in 1..MaxCalls }
  /\ HostUnused
  /\ PureUnused
  /\ CollectUnused
  /\ ConfigUnused
  /\ GitignoreUnused
  /\ SelectUnused

Took(i, outcome) ==
  /\ disk' = outcome.disk
  /\ calls' = [calls EXCEPT ![i] = outcome.call]
  /\ UNCHANGED step
  /\ UNCHANGED <<hostVars, pureVars, collectVars, configVars, gitignoreVars,
                 selectVars>>

\* the i-th call of embed is made and runs to `await pullDocs(...)`
StartEmbed(i) ==
  /\ calls[i].kind = "embed"
  /\ calls[i].pc = "new"
  /\ Took(i, startEmbed(disk, calls[i]))

\* the i-th call of embed runs from `await pullDocs(...)` to its end
FinishEmbed(i) ==
  /\ calls[i].pc = "pulling"
  /\ Took(i, finishEmbed(disk, calls[i]))

\* the i-th call of embedSkills is made and runs to its end
EmbedSkills(i) ==
  /\ calls[i].kind = "embedSkills"
  /\ calls[i].pc = "new"
  /\ Took(i, embedSkills(disk, calls[i]))

NextEmbed ==
  \E i \in DOMAIN calls :
    \/ StartEmbed(i)
    \/ FinishEmbed(i)
    \/ EmbedSkills(i)

SpecEmbed == InitEmbed /\ [][NextEmbed]_vars


(***************************************************************************)
(* C22, C23, C27: the results of embed and embedSkills and their writes.   *)
(***************************************************************************)
Settled(i) == calls[i].pc = "done"

Succeeded(i) ==
  /\ Settled(i)
  /\ calls[i].result.settled = "resolved"
  /\ calls[i].result.value.success

Failed(i) ==
  /\ Settled(i)
  /\ calls[i].result.settled = "resolved"
  /\ ~calls[i].result.value.success

\* a fatal condition met the call: no version, a failing clone, a failing
\* listing of the documents, no skill, a host file that cannot be read or
\* cannot be written
Fatal(i) ==
  LET c == calls[i]
  IN  \/ c.before.host.exists /\ ~c.before.host.readable
      \/ ~c.before.host.writable
      \/ /\ c.kind = "embed"
         /\ \/ c.version = NotGiven /\ ~(c.provider.canDetect /\ c.detected)
            \/ ~c.cloneOk
            \/ ~c.listOk
      \/ c.kind = "embedSkills" /\ ValidOf(c.sourceList[1]) = {}

\* C22: a call of embed or embedSkills never rejects; when a fatal
\* condition met it, it resolves to {success: false, error: <message>}
C22_FatalAsValues ==
  \A i \in DOMAIN calls :
    Settled(i) =>
      /\ calls[i].result.settled = "resolved"
      /\ Fatal(i) => /\ ~calls[i].result.value.success
                     /\ calls[i].result.value.error # ""

\* the text a successful call puts into the host file
BlockOf(c) ==
  IF c.kind = "embed"
  THEN wrapWithMarkers(embedIndex(c), c.provider.name)
  ELSE SkillsBlock(generateSkillsIndex(
                     collectAllSkills(c.sourceList).skills,
                     [regenerateCommand |-> NPX_SKILLS_EMBED]))

\* C23: a call that returned success:false wrote neither the host file nor
\* .gitignore, and with no other call on the disk both are what they were
\* before the call; a call that returned success:true wrote the host file
\* once, and with no other call the host file holds its whole block
C23_WriteOnlyOnSuccess ==
  \A i \in DOMAIN calls :
    /\ Failed(i) =>
         /\ calls[i].hostWrites = 0
         /\ calls[i].ignoreWrites = 0
         /\ Len(calls) = 1 => disk = calls[i].before
    /\ Succeeded(i) =>
         /\ calls[i].hostWrites = 1
         /\ Len(calls) = 1 =>
              /\ includes(disk.host.content, BlockOf(calls[i]))
              /\ disk.host.exists

\* a failed pull and a successful call on one disk
C23_Witness ==
  \E i, j \in DOMAIN calls :
    /\ Failed(i)
    /\ calls[i].kind = "embed"
    /\ calls[i].before.host.exists
    /\ Succeeded(j)
    /\ calls[j].kind = "embed"
    /\ calls[j].result.value.gitignoreUpdated

\* what a call writes its block for: the provider, or the skills
Target(c) == IF c.kind = "embed" THEN c.provider.name ELSE <<"skills">>

\* C27: when two calls with different targets have both resolved with
\* success, the host file holds the blocks of both
C27_BothBlocksKept ==
  \A i, j \in DOMAIN calls :
    (Succeeded(i) /\ Succeeded(j) /\ Target(calls[i]) # Target(calls[j])) =>
      /\ includes(disk.host.content, BlockOf(calls[i]))
      /\ includes(disk.host.content, BlockOf(calls[j]))

\* C27 amended: the step in which a call resolves with success leaves a
\* host file that holds the block of the call and the block of every call
\* with another target that the file held when the call read it
C27_KeepsWhatItRead ==
  [][\A j \in DOMAIN calls :
       (~Settled(j) /\ calls'[j].pc = "done"
          /\ calls'[j].result.settled = "resolved"
          /\ calls'[j].result.value.success) =>
         /\ includes(disk'.host.content, BlockOf(calls[j]))
         /\ \A i \in DOMAIN calls :
              (Target(calls[i]) # Target(calls[j])
                 /\ includes(calls'[j].existingContent, BlockOf(calls[i])))
                => includes(disk'.host.content, BlockOf(calls[i]))]_vars

\* two calls with different targets, the second made after the first wrote:
\* the host file holds both blocks
C27_Witness ==
  \E i, j \in DOMAIN calls :
    /\ Succeeded(i)
    /\ Succeeded(j)
    /\ calls[i].kind = "embed"
    /\ Target(calls[i]) # Target(calls[j])
    /\ includes(calls[j].existingContent, BlockOf(calls[i]))
    /\ includes(disk.host.content, BlockOf(calls[i]))
    /\ includes(disk.host.content, BlockOf(calls[j]))


(***************************************************************************)
(* loadConfig of src/lib/config.ts.  JSON.parse is modelled on texts       *)
(* without string escapes, fractions and exponents.  A JavaScript value is *)
(* [t |-> "object", members |-> <<<<key, value>>, ...>>],                  *)
(* [t |-> "array", elements |-> ...], [t |-> "string", s |-> ...],         *)
(* [t |-> "number", digits |-> ...], [t |-> "boolean", b |-> ...] or       *)
(* [t |-> "null"]; a configuration object is a function from its keys to   *)
(* their values.                                                           *)
(***************************************************************************)
DigitChars == <<"0", "1", "2", "3", "4", "5", "6", "7", "8", "9">>

Digits == { DigitChars[i] : i \in DOMAIN DigitChars }

\* the position (1-based) of the first character at or after i that is not
\* JSON whitespace
skipWhitespace(text, i) == runEnd(text, i - 1, WhiteSpace) + 1

NoParse == [ok |-> FALSE]

Parsed(value, after) == [ok |-> TRUE, value |-> value, next |-> after]

\* a string literal at position i
parseString(text, i) ==
  LET close == indexOfFrom(text, <<"\"">>, i)
  IN  IF i > Len(text) \/ text[i] # "\"" \/ close = -1 THEN NoParse
      ELSE Parsed([t |-> "string", s |-> SubSeq(text, i + 1, close)],
                  close + 2)

RECURSIVE parseValue(_, _)
RECURSIVE parseMembers(_, _, _)
RECURSIVE parseElements(_, _, _)

\* the members of an object from position i on, after the members seen
parseMembers(text, i, seen) ==
  LET key   == parseString(text, skipWhitespace(text, i))
      colon == skipWhitespace(text, key.next)
      value == parseValue(text, colon + 1)
      after == skipWhitespace(text, value.next)
      all   == Append(seen, <<key.value.s, value.value>>)
  IN  IF ~key.ok THEN NoParse
      ELSE IF colon > Len(text) \/ text[colon] # ":" THEN NoParse
      ELSE IF ~value.ok \/ after > Len(text) THEN NoParse
      ELSE IF text[after] = "," THEN parseMembers(text, after + 1, all)
      ELSE IF text[after] = "}"
      THEN Parsed([t |-> "object", members |-> all], after + 1)
      ELSE NoParse

\* the elements of an array from position i on, after the elements seen
parseElements(text, i, seen) ==
  LET value == parseValue(text, i)
      after == skipWhitespace(text, value.next)
      all   == Append(seen, value.value)
  IN  IF ~value.ok \/ after > Len(text) THEN NoParse
      ELSE IF text[after] = "," THEN parseElements(text, after + 1, all)
      ELSE IF text[after] = "]"
      THEN Parsed([t |-> "array", elements |-> all], after + 1)
      ELSE NoParse

\* the value that starts at or after position i
parseValue(text, i) ==
  LET at    == skipWhitespace(text, i)
      inner == skipWhitespace(text, at + 1)
      word(w, value) ==
        IF matchAt(text, w, at - 1) THEN Parsed(value, at + Len(w))
        ELSE NoParse
  IN  IF at > Len(text) THEN NoParse
      ELSE IF text[at] = "{"
      THEN IF inner <= Len(text) /\ text[inner] = "}"
           THEN Parsed([t |-> "object", members |-> <<>>], inner + 1)
           ELSE parseMembers(text, at + 1, <<>>)
      ELSE IF text[at] = "["
      THEN IF inner <= Len(text) /\ text[inner] = "]"
           THEN Parsed([t |-> "array", elements |-> <<>>], inner + 1)
           ELSE parseElements(text, at + 1, <<>>)
      ELSE IF text[at] = "\"" THEN parseString(text, at)
      ELSE IF text[at] \in Digits
      THEN Parsed([t |-> "number",
                   digits |-> SubSeq(text, at, runEnd(text, at, Digits))],
                  runEnd(text, at, Digits) + 1)
      ELSE IF text[at] = "n"
      THEN word(<<"n", "u", "l", "l">>, [t |-> "null"])
      ELSE IF text[at] = "t"
      THEN word(<<"t", "r", "u", "e">>, [t |-> "boolean", b |-> TRUE])
      ELSE IF text[at] = "f"
      THEN word(<<"f", "a", "l", "s", "e">>, [t |-> "boolean", b |-> FALSE])
      ELSE NoParse

\* JSON.parse(text): [threw, value]
jsonParse(text) ==
  LET parsed == parseValue(text, 1)
  IN  IF parsed.ok /\ skipWhitespace(text, parsed.next) > Len(text)
      THEN [threw |-> FALSE, value |-> parsed.value]
      ELSE [threw |-> TRUE, value |-> [t |-> "null"]]

\* the own enumerable properties that `...value` spreads into an object
\* literal: the members of an object (the last of a repeated key), the
\* elements of an array and the characters of a string under their indices
spread(value) ==
  LET indexKey(i) == <<DigitChars[i]>>
      keyed ==
        IF value.t = "object" THEN value.members
        ELSE IF value.t = "array"
        THEN [i \in DOMAIN value.elements |->
                <<indexKey(i), value.elements[i]>>]
        ELSE IF value.t = "string"
        THEN [i \in DOMAIN value.s |->
                <<indexKey(i), [t |-> "string", s |-> <<value.s[i]>>]>>]
        ELSE <<>>
  IN  [k \in { keyed[i][1] : i \in DOMAIN keyed } |->
         keyed[CHOOSE i \in DOMAIN keyed :
                 /\ keyed[i][1] = k
                 /\ \A j \in DOMAIN keyed : keyed[j][1] = k => j <= i][2]]

\* { ...a, ...b } of two objects
merge(a, b) ==
  [k \in DOMAIN a \cup DOMAIN b |-> IF k \in DOMAIN b THEN b[k] ELSE a[k]]

OUTPUT_KEY == <<"o", "u", "t", "p", "u", "t">>

AGDEX_KEY == <<"a", "g", "d", "e", "x">>

CLAUDE_MD == <<"C", "L", "A", "U", "D", "E", ".", "m", "d">>

DEFAULT_CONFIG == [k \in {OUTPUT_KEY} |-> [t |-> "string", s |-> CLAUDE_MD]]

\* fs.readFileSync(path, 'utf-8') followed by JSON.parse(content)
readJson(file) ==
  IF ~file.readable THEN [threw |-> TRUE, value |-> [t |-> "null"]]
  ELSE jsonParse(file.content)

\* packageJson.agdex && typeof packageJson.agdex === 'object': reading a
\* property of null throws, and a value without the property, or with a
\* falsy one or one that is no object, gives false
agdexField(packageJson) ==
  LET own == IF packageJson.t = "object" THEN spread(packageJson) ELSE <<>>
  IN  IF packageJson.t = "null" THEN [threw |-> TRUE, given |-> FALSE]
      ELSE IF AGDEX_KEY \in DOMAIN own
                /\ own[AGDEX_KEY].t \in {"object", "array"}
      THEN [threw |-> FALSE, given |-> TRUE, value |-> own[AGDEX_KEY]]
      ELSE [threw |-> FALSE, given |-> FALSE]

\* loadConfig with package.json read before .agdexrc.json
loadConfig_packageFirst(found) ==
  LET rc          == readJson(found.rc)
      packageJson == readJson(found.package)
      field       == agdexField(packageJson.value)
  IN  IF found.package.exists /\ ~packageJson.threw /\ ~field.threw
           /\ field.given
      THEN merge(DEFAULT_CONFIG, spread(field.value))
      ELSE IF found.rc.exists /\ ~rc.threw
      THEN merge(DEFAULT_CONFIG, spread(rc.value))
      ELSE DEFAULT_CONFIG

\* loadConfig(cwd), found being the states of cwd/.agdexrc.json and
\* cwd/package.json; each try block falls through when a statement throws
loadConfig(found) ==
  LET rc          == readJson(found.rc)
      packageJson == readJson(found.package)
      field       == agdexField(packageJson.value)
  IN  IF found.rc.exists /\ ~rc.threw
      THEN merge(DEFAULT_CONFIG, spread(rc.value))
      ELSE IF found.package.exists /\ ~packageJson.threw /\ ~field.threw
                /\ field.given
      THEN merge(DEFAULT_CONFIG, spread(field.value))
      ELSE DEFAULT_CONFIG

(***************************************************************************)
(* The files loadConfig is called on.  kind and holds say what the text of *)
(* a file denotes, written by hand: kind is "invalid" for a text that is   *)
(* not JSON, "none" for a package.json without an agdex object, and        *)
(* "values" when holds are the properties the file gives to the            *)
(* configuration (for package.json those of its agdex object).             *)
(***************************************************************************)
ConfigFile(exists, readable, text, kind, values) ==
  [exists |-> exists, readable |-> readable, content |-> text,
   kind |-> kind, holds |-> values]

StringValue(chars) == [t |-> "string", s |-> chars]

OutputIs(chars) == [k \in {OUTPUT_KEY} |-> StringValue(chars)]

RcFiles ==
  { ConfigFile(FALSE, FALSE, <<>>, "missing", <<>>),
    ConfigFile(TRUE, FALSE, <<"{", "\"", "o", "u", "t", "p", "u", "t", "\"", ":", "\"",
               "A", "\"", "}">>, "unreadable", <<>>),
    ConfigFile(TRUE, TRUE, <<"{", "\"", "o", "u", "t", "p", "u", "t", "\"", ":", "\"",
               "A", "\"", "}">>, "values", OutputIs(<<"A">>)),
    ConfigFile(TRUE, TRUE, <<"{", "}">>, "values", <<>>),
    ConfigFile(TRUE, TRUE, <<"{", " ", "\"", "o", "u", "t", "p", "u", "t", "\"", " ", ":",
               " ", "\"", "A", "\"", " ", ",", "\n", " ", "\"", "x", "\"",
               ":", "1", "0", ",", " ", "\"", "o", "u", "t", "p", "u", "t",
               "\"", ":", "\"", "B", "\"", "}", "\n">>, "values",
               [k \in {OUTPUT_KEY, <<"x">>} |->
                  IF k = OUTPUT_KEY THEN StringValue(<<"B">>)
                  ELSE [t |-> "number", digits |-> <<"1", "0">>]]),
    ConfigFile(TRUE, TRUE, <<"n", "u", "l", "l">>, "values", <<>>),
    ConfigFile(TRUE, TRUE, <<"\"", "m", "d", "\"">>, "values",
               [k \in {<<"0">>, <<"1">>} |->
                  IF k = <<"0">> THEN StringValue(<<"m">>)
                  ELSE StringValue(<<"d">>)]),
    ConfigFile(TRUE, TRUE, <<"{", "\"", "o", "u", "t", "p", "u", "t", "\"", ":">>, "invalid", <<>>),
    ConfigFile(TRUE, TRUE, <<"{", "\"", "o", "u", "t", "p", "u", "t", "\"", ":", "\"",
               "A", "\"", "}", "x">>, "invalid", <<>>),
    ConfigFile(TRUE, TRUE, <<>>, "invalid", <<>>) }

PackageFiles ==
  { ConfigFile(FALSE, FALSE, <<>>, "missing", <<>>),
    ConfigFile(TRUE, FALSE, <<"{", "\"", "n", "a", "m", "e", "\"", ":", "\"", "p", "\"",
               ",", "\"", "a", "g", "d", "e", "x", "\"", ":", "{", "\"", "o",
               "u", "t", "p", "u", "t", "\"", ":", "\"", "P", "\"", "}", "}">>, "unreadable", <<>>),
    ConfigFile(TRUE, TRUE, <<"{", "\"", "n", "a", "m", "e", "\"", ":", "\"", "p", "\"",
               ",", "\"", "a", "g", "d", "e", "x", "\"", ":", "{", "\"", "o",
               "u", "t", "p", "u", "t", "\"", ":", "\"", "P", "\"", "}", "}">>, "values", OutputIs(<<"P">>)),
    ConfigFile(TRUE, TRUE, <<"{", "\"", "n", "a", "m", "e", "\"", ":", "\"", "p", "\"",
               "}">>, "none", <<>>),
    ConfigFile(TRUE, TRUE, <<"{", "\"", "a", "g", "d", "e", "x", "\"", ":", "\"", "C",
               "L", "A", "U", "D", "E", ".", "m", "d", "\"", "}">>, "none", <<>>),
    ConfigFile(TRUE, TRUE, <<"{", "\"", "a", "g", "d", "e", "x", "\"", ":", "n", "u", "l",
               "l", "}">>, "none", <<>>),
    ConfigFile(TRUE, TRUE, <<"{", "\"", "a", "g", "d", "e", "x", "\"", ":", "{", "}",
               "}">>, "values", <<>>),
    ConfigFile(TRUE, TRUE, <<"{", "\"", "a", "g", "d", "e", "x", "\"", ":", "[", "\"",
               "Q", "\"", "]", "}">>, "values",
               [k \in {<<"0">>} |-> StringValue(<<"Q">>)]),
    ConfigFile(TRUE, TRUE, <<"n", "u", "l", "l">>, "none", <<>>),
    ConfigFile(TRUE, TRUE, <<"7">>, "none", <<>>),
    ConfigFile(TRUE, TRUE, <<"{", "\"", "a", "g", "d", "e", "x", "\"", ":", "{", "\"",
               "o", "u", "t", "p", "u", "t", "\"", ":", "\"", "P", "\"", "}">>, "invalid", <<>>) }

InitConfig ==
  /\ step = "files"
  /\ configFiles \in [rc : RcFiles, package : PackageFiles]
  /\ config = <<>>
  /\ HostUnused
  /\ PureUnused
  /\ CollectUnused
  /\ EmbedUnused
  /\ GitignoreUnused
  /\ SelectUnused

\* config := loadConfig(cwd)
LoadConfig ==
  /\ step = "files"
  /\ config' = loadConfig(configFiles)
  /\ step' = "loaded"
  /\ UNCHANGED configFiles
  /\ UNCHANGED <<hostVars, pureVars, collectVars, embedVars, gitignoreVars,
                 selectVars>>

NextConfig == LoadConfig

SpecConfig == InitConfig /\ [][NextConfig]_vars

(***************************************************************************)
(* C24: the source loadConfig takes the configuration from.                *)
(***************************************************************************)
\* the file exists and parses: it holds properties
Parses(file) == file.kind \in {"values", "none"}

\* the properties over the defaults
OverDefaults(holds) ==
  [k \in {OUTPUT_KEY} \cup DOMAIN holds |->
     IF k \in DOMAIN holds THEN holds[k] ELSE StringValue(CLAUDE_MD)]

\* C24: loadConfig returns the values of .agdexrc.json over the defaults
\* whenever that file exists and parses, whatever package.json holds; else
\* the values of the agdex object of package.json over the defaults when
\* package.json parses and has such an object; else the defaults, with
\* output 'CLAUDE.md'
C24_SourcePriority ==
  step = "loaded" =>
    IF Parses(configFiles.rc)
    THEN config = OverDefaults(configFiles.rc.holds)
    ELSE IF configFiles.package.kind = "values"
    THEN config = OverDefaults(configFiles.package.holds)
    ELSE /\ DOMAIN config = {OUTPUT_KEY}
         /\ config[OUTPUT_KEY] = StringValue(CLAUDE_MD)

\* both files parse and set different outputs
C24_Witness ==
  /\ step = "loaded"
  /\ Parses(configFiles.rc)
  /\ OUTPUT_KEY \in DOMAIN configFiles.rc.holds
  /\ configFiles.package.kind = "values"
  /\ config[OUTPUT_KEY] = StringValue(<<"B">>)


(***************************************************************************)
(* C25: removal really removes.                                            *)
(***************************************************************************)
\* C25: after removeDocsIndex(c, id) with a specific identifier the result
\* holds no index of id, and after removeSkillsIndex(c) the result holds no
\* skills index, whatever the markers of c look like
C25_RemovalRemoves ==
  NCalls >= 1 =>
    /\ (Last.op = "remove" /\ Last.id # NoProvider)
         => ~hasExistingIndex(content, Last.id)
    /\ Last.op = "removeSkills" => ~hasExistingSkillsIndex(content)


(***************************************************************************)
(* C26: the docs index loses no file.                                      *)
(***************************************************************************)
\* the number of segments generateIndex writes ahead of the directories
LeadSegments(options) ==
  3 + (IF options.instruction = NotGiven THEN 0 ELSE 1)
    + (IF options.description = NotGiven THEN 0 ELSE 1)

\* a segment `<dir>:{<f1>,<f2>,...}` read back: its directory and file names
ReadSegment(segment) ==
  LET brace == indexOf(segment, <<":", "{">>)
      inner == slice(segment, brace + 2, Len(segment) - 1)
  IN  [ shaped |-> brace # -1 /\ segment[Len(segment)] = "}",
        dir    |-> slice(segment, 0, brace),
        names  |-> IF inner = <<>> THEN <<>> ELSE split(inner, ",") ]

\* the directory segments of the index, read back
ReadDirectories(text, options) ==
  LET segments == split(text, "|")
      n        == LeadSegments(options)
  IN  [i \in 1..(Len(segments) - n) |-> ReadSegment(segments[n + i])]

\* how many times x is an element of the sequence s
Times(s, x) == Cardinality({ i \in DOMAIN s : s[i] = x })

\* C26: every input path, of any depth, is written as a file name in the
\* segment of its full parent directory ('.' for a root-level file) as many
\* times as it is in the input (once for a path given once), every directory
\* has exactly one segment, and no directory and no file name is written
\* that the input does not have
C26_NoFileLost ==
  (step = "index" /\ BarFree) =>
    LET dirs == ReadDirectories(index, opts)
    IN  /\ \A k \in DOMAIN dirs : dirs[k].shaped
        /\ \A i \in DOMAIN files :
             \E k \in DOMAIN dirs :
               /\ dirs[k].dir = DirOf(files[i])
               /\ \A l \in DOMAIN dirs : dirs[l].dir = dirs[k].dir => l = k
               /\ Times(dirs[k].names, NameOf(files[i]))
                    = Cardinality({ j \in DOMAIN files :
                        /\ DirOf(files[j]) = DirOf(files[i])
                        /\ NameOf(files[j]) = NameOf(files[i]) })
        /\ \A k \in DOMAIN dirs : \A n \in DOMAIN dirs[k].names :
             \E i \in DOMAIN files :
               /\ DirOf(files[i]) = dirs[k].dir
               /\ NameOf(files[i]) = dirs[k].names[n]

\* an index of a root-level file, a file four directories deep and a file
\* three directories deep, each written once in the segment of its directory
C26_Witness ==
  /\ step = "index"
  /\ BarFree
  /\ { Len(split(files[i], "/")) : i \in DOMAIN files } = {1, 4, 5}
  /\ LET dirs == ReadDirectories(index, opts)
     IN  /\ Len(dirs) = 3
         /\ \E k \in DOMAIN dirs :
              /\ dirs[k].dir = <<"a","/","b","/","c","/","d">>
              /\ dirs[k].names = << <<"x">> >>


(***************************************************************************)
(* C28: docs blocks and the skills block side by side.                     *)
(***************************************************************************)
\* c holds one skills block, start marker ahead of end marker
HoldsSkillsBlock(c) ==
  /\ Count(c, SKILLS_START_MARKER) = 1
  /\ Count(c, SKILLS_END_MARKER) = 1
  /\ indexOf(c, SKILLS_START_MARKER) + Len(SKILLS_START_MARKER)
       <= indexOf(c, SKILLS_END_MARKER)

\* the skills block of c, markers included
SkillsText(c) ==
  slice(c, indexOf(c, SKILLS_START_MARKER),
           indexOf(c, SKILLS_END_MARKER) + Len(SKILLS_END_MARKER))

\* the identifiers whose docs markers c holds
DocsIdsIn(c) ==
  { id \in Providers \cup {NoProvider} :
      Count(c, getStartMarker(id)) + Count(c, getEndMarker(id)) > 0 }

\* c holds a well-formed skills block and its docs markers make well-formed
\* blocks, one per identifier
WellFormedBlocks(c) ==
  /\ HoldsSkillsBlock(c)
  /\ \A id \in DocsIdsIn(c) : HoldsBlock(c, id)
  /\ Count(c, START_MARKER_PREFIX) = Cardinality(DocsIdsIn(c))
  /\ Count(c, END_MARKER_PREFIX) = Cardinality(DocsIdsIn(c))

\* the skills block is in `after` as it was in `before`, once
SameSkillsBlock(before, after) ==
  /\ Count(after, SkillsText(before)) = 1
  /\ Count(after, SKILLS_START_MARKER) = 1
  /\ Count(after, SKILLS_END_MARKER) = 1

\* injectIndex and removeDocsIndex, with an identifier or none, left the
\* skills block as it was
DocsCallsKeepSkills ==
  (/\ NCalls >= 1
   /\ Last.op \in {"inject", "remove"}
   /\ WellFormedBlocks(Last.before))
    => SameSkillsBlock(Last.before, content)

\* injectSkillsIndex and removeSkillsIndex left every docs block as it was
SkillsCallsKeepDocs ==
  (/\ NCalls >= 1
   /\ Last.op \in {"injectSkills", "removeSkills"}
   /\ WellFormedBlocks(Last.before))
    => \A id \in DocsIdsIn(Last.before) : SameBlock(Last.before, content, id)

\* a skills block is no docs index and a docs block is no skills index
DetectionApart ==
  /\ Count(content, START_MARKER_PREFIX) = 0
       => \A id \in Providers \cup {NoProvider} : ~hasExistingIndex(content, id)
  /\ Count(content, <<"S","K","I","L","L","S">>) = 0
       => ~hasExistingSkillsIndex(content)

\* C28: on content with a well-formed skills block and well-formed docs
\* blocks, injectIndex and removeDocsIndex (any identifier or none) leave the
\* skills block byte-identical, injectSkillsIndex and removeSkillsIndex leave
\* every docs block byte-identical, and neither detection answers to the
\* other's markers
C28_BlocksIndependent ==
  /\ DocsCallsKeepSkills
  /\ SkillsCallsKeepDocs
  /\ DetectionApart


(***************************************************************************)
(* Repeated calls of ensureGitignoreEntry on one .gitignore.               *)
(* gitignore is [docsDir, before, file]: the docsDir of the calls, the     *)
(* file before the first call and the file now; statuses holds one record  *)
(* [threw, updated, alreadyPresent, after] per call, after being the file  *)
(* the call left.                                                          *)
(***************************************************************************)
MaxEnsures == 3

\* 'docs'
DOCS_DIR == <<"d", "o", "c", "s">>

\* the docsDir values of the calls: '.agdex', 'docs', 'docs/'
EnsureDirs == { AGDEX_DIR, DOCS_DIR, DOCS_DIR \o <<"/">> }

\* the texts a .gitignore holds before the first call
GitignoreTexts ==
  { <<>>,
    <<"a">>,
    <<"a", "\n">>,
    AGDEX_DIR \o <<"/", "\n">>,
    <<" ", " ">> \o AGDEX_DIR \o <<"\n">> \o DOCS_DIR,
    AGDEX_DIR \o <<"/", "x", "\r", "\n">> \o AGDEX_DIR \o <<"/", "\n">>
      \o DOCS_DIR \o <<"/", "\n">> \o DOCS_DIR \o <<"/", "\n">>,
    AGDEX_HEADER \o <<"\n", "a", "\n">>,
    AGDEX_HEADER \o <<"\n">> \o AGDEX_HEADER \o <<"\r", "\n", "a">>,
    <<"x">> \o AGDEX_HEADER \o <<"y">>,
    <<"x">> \o Tail(AGDEX_DIR) \o <<"\n">> \o DOCS_DIR \o <<"x", "\n">> }

\* the .gitignore before the first call: absent, readable and writable with
\* each of the texts, unreadable, read-only without and with entries
GitignoreFiles ==
  { DiskFile(FALSE, FALSE, TRUE, <<>>) }
    \cup { DiskFile(TRUE, TRUE, TRUE, text) : text \in GitignoreTexts }
    \cup { DiskFile(TRUE, FALSE, TRUE, <<"a", "\n">>),
           DiskFile(TRUE, TRUE, FALSE, <<"a", "\n">>),
           DiskFile(TRUE, TRUE, FALSE,
                    AGDEX_DIR \o <<"\n">> \o DOCS_DIR \o <<"/", "\n">>) }

InitGitignore ==
  /\ step = "gitignore"
  /\ \E docsDir \in EnsureDirs, file \in GitignoreFiles :
       gitignore = [docsDir |-> docsDir, before |-> file, file |-> file]
  /\ statuses = <<>>
  /\ HostUnused
  /\ PureUnused
  /\ CollectUnused
  /\ EmbedUnused
  /\ ConfigUnused
  /\ SelectUnused

\* ensureGitignoreEntry(cwd, docsDir), once more
EnsureGitignoreEntry ==
  /\ step = "gitignore"
  /\ Len(statuses) < MaxEnsures
  /\ LET ensured == ensureGitignoreEntry(gitignore.file, gitignore.docsDir)
     IN  /\ gitignore' = [gitignore EXCEPT !.file = ensured.file]
         /\ statuses' = Append(statuses,
              [ threw          |-> ensured.threw,
                updated        |-> ~ensured.threw /\ ensured.status.updated,
                alreadyPresent |-> ~ensured.threw
                                     /\ ensured.status.alreadyPresent,
                after          |-> ensured.file ])
  /\ UNCHANGED <<hostVars, pureVars, collectVars, embedVars, configVars,
                 selectVars, step>>

NextGitignore == EnsureGitignoreEntry

SpecGitignore == InitGitignore /\ [][NextGitignore]_vars

(***************************************************************************)
(* C29: ensureGitignoreEntry over repeated calls.                          *)
(***************************************************************************)
\* the text of a file, '' for a file that is not there
TextOf(file) == IF file.exists THEN file.content ELSE <<>>

\* line is an entry for docsDir: after leading blanks it is docsDir, or
\* docsDir, a '/' and the rest of the line
IsEntryLine(line, docsDir) ==
  LET entryText == sliceFrom(line, runEnd(line, 0, WhiteSpace))
      dirSlash  == docsDir \o <<"/">>
  IN  \/ entryText = docsDir
      \/ /\ slice(entryText, 0, Len(dirSlash)) = dirSlash
         /\ \A i \in (Len(dirSlash) + 1)..Len(entryText) :
              entryText[i] \notin LineTerminators

\* the number of entry lines for docsDir in text
EntryLines(text, docsDir) ==
  LET lines == splitLines(text)
  IN  Cardinality({ i \in DOMAIN lines : IsEntryLine(lines[i], docsDir) })

\* the number of lines '# agdex' in text
HeaderLines(text) ==
  LET lines == splitLines(text)
  IN  Cardinality({ i \in DOMAIN lines : lines[i] = AGDEX_HEADER })

\* the file call i found
FoundBy(i) == IF i = 1 THEN gitignore.before ELSE statuses[i - 1].after

\* what the claim says of the statuses, of the text kept and of the writes
StatusesAndWrites ==
  LET docsDir == gitignore.docsDir
  IN  /\ \A i \in DOMAIN statuses :
           LET found  == FoundBy(i)
               status == statuses[i]
           IN  /\ (~status.threw /\ EntryLines(TextOf(found), docsDir) = 0)
                    => status.updated /\ ~status.alreadyPresent
               /\ (\E j \in 1..(i - 1) : ~statuses[j].threw)
                    => /\ ~status.threw
                       /\ ~status.updated
                       /\ status.alreadyPresent
                       /\ status.after = found
      /\ slice(TextOf(gitignore.file), 0, Len(TextOf(gitignore.before)))
           = TextOf(gitignore.before)

\* a call has returned
SomeCallReturned == \E i \in DOMAIN statuses : ~statuses[i].threw

\* C29 as stated: after one or more calls with the same docsDir .gitignore
\* holds exactly one entry line for docsDir and at most one '# agdex' line,
\* the text it had before the first call is kept ahead of what was added,
\* the first call on a file without the entry returns updated: true, and
\* every later call returns updated: false, alreadyPresent: true and leaves
\* the file as it found it
C29_EnsureIdempotent ==
  SomeCallReturned =>
    /\ EntryLines(TextOf(gitignore.file), gitignore.docsDir) = 1
    /\ HeaderLines(TextOf(gitignore.file)) <= 1
    /\ StatusesAndWrites

\* C29 amended: the same, with exactly one entry line when the file held
\* none before the first call and the entry lines it held otherwise, and at
\* most one '# agdex' line unless the file held more before the first call
C29_EnsureIdempotentAmended ==
  SomeCallReturned =>
    LET before == TextOf(gitignore.before)
        now    == TextOf(gitignore.file)
    IN  /\ EntryLines(now, gitignore.docsDir)
             = Max(1, EntryLines(before, gitignore.docsDir))
        /\ HeaderLines(now) <= Max(1, HeaderLines(before))
        /\ StatusesAndWrites

\* three calls on a .gitignore 'a' for '.agdex': the first wrote header and
\* entry after a newline, the later two found the entry
C29_Witness ==
  /\ step = "gitignore"
  /\ Len(statuses) = 3
  /\ gitignore.docsDir = AGDEX_DIR
  /\ TextOf(gitignore.before) = <<"a">>
  /\ statuses[1].updated
  /\ statuses[2].alreadyPresent /\ statuses[3].alreadyPresent
  /\ TextOf(gitignore.file)
       = <<"a", "\n">> \o AGDEX_HEADER \o <<"\n">> \o AGDEX_DIR \o <<"/", "\n">>


(***************************************************************************)
(* cli/configurable-select.ts: configurableMultiselect and its key handler *)
(* onData.  A key event is the string stdin delivers, a sequence of        *)
(* characters; control characters are written by their names.  What the    *)
(* handler writes to the terminal (render, cleanup) is left out.  step is  *)
(* "select" while the handler is attached, "resolved" after Enter in       *)
(* browsing and "exited" after Ctrl+C; keys is [count, last], the number   *)
(* of key events handled and the latest of them.                           *)
(***************************************************************************)
MaxChoices == 2

MaxKeys == 5

\* the characters with a char code below 32
ControlCharacters == {"ETX", "ESC", "BS", "TAB", "CR", "SOH"}

CTRL_C == <<"ETX">>

ARROW_UP == <<"ESC", "[", "A">>

ARROW_DOWN == <<"ESC", "[", "B">>

ESCAPE == <<"ESC">>

DOUBLE_ESCAPE == <<"ESC", "ESC">>

\* the save with the version taken from editBuffer as it is
saveField_noDefault(m) ==
  LET i == m.cursor + 1
  IN  IF m.state = "editing-version"
      THEN [m EXCEPT !.items[i].version = m.editBuffer,
                     !.state = "editing-description",
                     !.editBuffer = m.items[i].description]
      ELSE [m EXCEPT !.items[i].description = m.editBuffer,
                     !.state = "browsing"]

\* Tab or Enter while editing: save current field and advance
saveField(m) ==
  LET i == m.cursor + 1
  IN  IF m.state = "editing-version"
      THEN [m EXCEPT !.items[i].version =
                       IF m.editBuffer # <<>> THEN m.editBuffer
                       ELSE m.items[i].defaultVersion,
                     !.state = "editing-description",
                     !.editBuffer = m.items[i].description]
      ELSE [m EXCEPT !.items[i].description = m.editBuffer,
                     !.state = "browsing"]

\* the selected items as ConfigurableResult records
results(itemList) ==
  LET selected == SelectSeq(itemList, LAMBDA item : item.selected)
  IN  [k \in DOMAIN selected |->
         [ value       |-> selected[k].value,
           version     |-> selected[k].version,
           description |-> selected[k].description ]]

\* onData(key) on m = [items, cursor, state, editBuffer, outcome, resolved]:
\* outcome becomes "exited" at process.exit and "resolved" at resolve
onData(m, key) ==
  LET i == m.cursor + 1
  IN  IF key = CTRL_C THEN [m EXCEPT !.outcome = "exited"]
      ELSE IF m.state = "browsing"
      THEN IF key = ARROW_UP \/ key = <<"k">>
           THEN [m EXCEPT !.cursor = Max(0, m.cursor - 1)]
           ELSE IF key = ARROW_DOWN \/ key = <<"j">>
           THEN [m EXCEPT !.cursor = Min(Len(m.items) - 1, m.cursor + 1)]
           ELSE IF key = <<" ">>
           THEN [m EXCEPT !.items[i].selected = ~m.items[i].selected]
           ELSE IF key = <<"TAB">>
           THEN [m EXCEPT !.state = "editing-version",
                          !.editBuffer = m.items[i].version,
                          !.items[i].selected = TRUE]
           ELSE IF key = <<"CR">>
           THEN [m EXCEPT !.outcome = "resolved",
                          !.resolved = results(m.items)]
           ELSE m
      ELSE IF key = <<"TAB">> \/ key = <<"CR">>
           THEN saveField(m)
           ELSE IF key = ESCAPE \/ key = DOUBLE_ESCAPE
           THEN [m EXCEPT !.state = "browsing"]
           ELSE IF key = <<"DEL">> \/ key = <<"BS">>
           THEN [m EXCEPT !.editBuffer = slice(m.editBuffer, 0, -1)]
           ELSE IF Len(key) = 1 /\ key[1] \notin ControlCharacters
           THEN [m EXCEPT !.editBuffer = m.editBuffer \o key]
           ELSE m

\* a ConfigurableChoice
Choice(title, defaultVersion) ==
  [title |-> title, value |-> title, defaultVersion |-> defaultVersion]

Choices ==
  { Choice(<<"a">>, <<"1">>), Choice(<<"b">>, <<>>) }

\* the key events stdin delivers: Ctrl+C, the arrows, k, j, space, Tab,
\* Enter, Escape once and twice, Delete, Backspace, a printable character, a
\* control character and two characters in one event
KeyEvents ==
  { CTRL_C, ARROW_UP, ARROW_DOWN, <<"k">>, <<"j">>, <<" ">>, <<"TAB">>,
    <<"CR">>, ESCAPE, DOUBLE_ESCAPE, <<"DEL">>, <<"BS">>, <<"x">>,
    <<"SOH">>, <<"x", "y">> }

\* configurableMultiselect(options) up to stdin.on('data', onData)
InitSelect ==
  /\ step = "select"
  /\ \E n \in 1..MaxChoices : \E choices \in [1..n -> Choices] :
       items = [k \in 1..n |->
                  [ title          |-> choices[k].title,
                    value          |-> choices[k].value,
                    selected       |-> FALSE,
                    version        |-> choices[k].defaultVersion,
                    description    |-> <<>>,
                    defaultVersion |-> choices[k].defaultVersion ]]
  /\ cursor = 0
  /\ state = "browsing"
  /\ editBuffer = <<>>
  /\ keys = [count |-> 0, last |-> <<>>]
  /\ resolved = <<>>
  /\ HostUnused
  /\ PureUnused
  /\ CollectUnused
  /\ EmbedUnused
  /\ ConfigUnused
  /\ GitignoreUnused

\* stdin delivers key and onData(key) runs
OnData(key) ==
  /\ step = "select"
  /\ keys.count < MaxKeys
  /\ LET m == onData([ items |-> items, cursor |-> cursor, state |-> state,
                       editBuffer |-> editBuffer, outcome |-> step,
                       resolved |-> resolved ], key)
     IN  /\ items' = m.items
         /\ cursor' = m.cursor
         /\ state' = m.state
         /\ editBuffer' = m.editBuffer
         /\ resolved' = m.resolved
         /\ step' = m.outcome
  /\ keys' = [count |-> keys.count + 1, last |-> key]
  /\ UNCHANGED <<hostVars, pureVars, collectVars, embedVars, configVars,
                 gitignoreVars>>

NextSelect == \E key \in KeyEvents : OnData(key)

SpecSelect == InitSelect /\ [][NextSelect]_vars


(***************************************************************************)
(* C30: the multiselect keeps edits on the item under the cursor.          *)
(***************************************************************************)
Editing == state \in {"editing-version", "editing-description"}

\* the cursor is on an item, the item under the cursor is selected while a
\* field is edited, and no item with a default version has an empty version
CursorAndVersions ==
  /\ cursor \in 0..(Len(items) - 1)
  /\ Editing => items[cursor + 1].selected
  /\ \A k \in DOMAIN items :
       items[k].defaultVersion # <<>> => items[k].version # <<>>

\* a key handled while a field is edited leaves the cursor and the other
\* items alone, and Escape goes back to browsing with every version and
\* description as it was
EditingKey ==
  Editing =>
    /\ cursor' = cursor
    /\ \A k \in DOMAIN items : k # cursor + 1 => items'[k] = items[k]
    /\ keys'.last \in {ESCAPE, DOUBLE_ESCAPE} =>
         /\ state' = "browsing"
         /\ \A k \in DOMAIN items :
              /\ items'[k].version = items[k].version
              /\ items'[k].description = items[k].description

====
